---- MODULE Spec2Model ----
(***************************************************************************)
(* Field-lifecycle state machine and timing-metrics engine of the custom   *)
(* form-field tracker (src/src/BaseField.js), together with the host       *)
(* tracker attributes it writes, the browser clock and the browser timers  *)
(* its helpers and the click widgets create.                               *)
(*                                                                         *)
(* Time is in milliseconds.  Date.now() is a positive integer, so a        *)
(* timestamp attribute is falsy in the JavaScript sense exactly when it is *)
(* null; null is written Null (0) and every clock value is >= T0 > 0.      *)
(***************************************************************************)
EXTENDS Integers, Sequences, FiniteSets, TLC

\* ---------------------------------------------------------------- bounds
MaxTicks == 2
MaxCount == 2
MaxDeletes == 1
MaxCursor == 1
MaxTimers == 2
MaxWidgetTimers == 4
MaxStack == 3
MaxSetups == 1
MaxHist == 4
MaxObservers == 1
MaxFaults == 2
MaxScanTicks == 5

\* ------------------------------------------------------------- constants
Null == 0
T0 == 1000
DefaultBlurDelay == 100
WidgetBlurDelay == 100
ImageSettleDelay == 50
TickMs == ImageSettleDelay
ReScanDelay == 300
ScanStep == ReScanDelay \div 3

AllFields == {"f1", "f2"}
Fields == {"f1"}
NoName == "null"
Events == {"focus", "blur", "input", "keydown", "click"}
TimerIds == 1..MaxTimers
ObserverIds == 1..MaxObservers
\* The stars a user clicks, and what the image selector can read as selected.
Stars == {1, 2, 4}
SelectedValues == {Null, 1}

VARIABLES now, fld, tracker, timers, nextTimerId, dom, calls, err, lastOp, ret,
          sess, hist, cls, page

vars == <<now, fld, tracker, timers, nextTimerId, dom, calls, err, lastOp, ret,
          sess, hist, cls, page>>

\* The form's candidate elements in document order, the registrable field
\* types, the selectors (which element a type's selector matches) and the
\* data-name attributes; e3 has none.
ElementOrder == <<"e1", "e2", "e3">>
Elements == {ElementOrder[i] : i \in DOMAIN ElementOrder}
Types == {"rating", "imageSelector"}
Matches(el, ty) ==
    <<el, ty>> \in { <<"e1", "rating">>, <<"e1", "imageSelector">>,
                     <<"e2", "imageSelector">>, <<"e3", "rating">> }
DataName(el) == CASE el = "e1" -> "f1" [] el = "e2" -> "f2" [] OTHER -> NoName

\* A field class, by which of its static properties it defines (truthy).
Classes == [fieldType : BOOLEAN, category : BOOLEAN, selector : BOOLEAN,
            setup : {TRUE}, override : {"own"}]

\* What a class does about setupEventListeners: it keeps the one of BaseField,
\* overrides it with wiring of its own, or overrides it and calls
\* super.setupEventListeners() from the override.
Overrides == {"none", "own", "super"}

TypeOrder == <<"rating", "imageSelector">>

FullClass == [fieldType |-> TRUE, category |-> TRUE, selector |-> TRUE,
              setup |-> TRUE, override |-> "own"]

\* ------------------------------------------------------------ construction
NewField ==
    [ timespent |-> 0, hesitationtime |-> 0,
      startFocus |-> Null, timeLastChange |-> Null,
      numChanges |-> 0, numFocus |-> 0, numDeletes |-> 0, numCursor |-> 0,
      canCountChange |-> TRUE, isFocusedCausedAuto |-> FALSE,
      hasChangedValueSinceFocus |-> FALSE,
      tracker |-> TRUE, element |-> TRUE, nodes |-> TRUE,
      firstInteractionTime |-> Null,
      eventListeners |-> [e \in Events |-> 0],
      timerSet |-> {},
      mutationObservers |-> {},
      isDestroyed |-> FALSE,
      delayedBlurTimer |-> Null,
      lastSelectedValue |-> Null,
      lastRating |-> 0 ]

NewTracker ==
    [ lastFocusedFieldName |-> NoName, exitFieldName |-> NoName,
      entryFieldName |-> NoName, fields |-> <<>>, fieldNodes |-> <<>> ]

\* The document and the fieldClasses registry (entries in insertion order).
NewPage == [form |-> {}, registry |-> <<>>, observer |-> FALSE,
            reScanTimeout |-> Null]

NewDom ==
    [ attached    |-> [e \in Events |-> 0],
      added       |-> [e \in Events |-> 0],
      removeCalls |-> [e \in Events |-> 0],
      clearCalls  |-> [i \in TimerIds |-> 0],
      observing   |-> {},
      disconnectCalls |-> [o \in ObserverIds |-> 0],
      failRemove  |-> {},
      failClear   |-> {},
      failDisconnect |-> {},
      interactive |-> TRUE ]

NoRet == [ b |-> FALSE, arg |-> 0, fa_fn |-> NoName, fa_fts |-> 0, fa_fht |-> 0,
           fa_ff |-> 0, fa_fch |-> 0, fa_fd |-> 0, fa_fcu |-> 0 ]

\* The state a handler runs on: everything it can read or write.
World ==
    [ fld |-> fld, tracker |-> tracker, timers |-> timers,
      nextTimerId |-> nextTimerId, dom |-> dom, calls |-> <<>>, err |-> FALSE,
      sess |-> sess, page |-> page ]

\* History of the current focus session, kept beside the program state: the
\* value of numChanges when onFocus (or the reset) last ran, and whether an
\* onChange has been processed since.
NewSession(n) == [base |-> n, processed |-> FALSE]

\* A host callback: the log keeps the host names the callback observes.
Call(S, cb, f) ==
    [S EXCEPT !.calls = Append(@, [cb |-> cb, field |-> f, names |-> S.tracker])]

\* An uncaught TypeError: the handler stops where it is.
Throw(S) == [S EXCEPT !.err = TRUE]

\* ---------------------------------------------------- faulty variants
\* Handlers with one deliberate fault each; the properties below must tell
\* them from the handlers of the source.

\* A blur that commits the whole focus span, whatever happened in it.
onBlurWallClock(S, f) ==
    LET me == S.fld[f]
    IN  IF me.startFocus = Null THEN S
        ELSE [S EXCEPT !.fld[f].timespent = @ + (now - me.startFocus),
                       !.fld[f].timeLastChange = Null,
                       !.fld[f].startFocus = Null]

\* A blur whose first branch counts from startFocus.
onBlurSinceFocus(S, f) ==
    LET me == S.fld[f]
    IN  IF me.startFocus = Null THEN S
        ELSE IF me.firstInteractionTime # Null /\ me.hasChangedValueSinceFocus
        THEN [S EXCEPT !.fld[f].timespent = @ + (now - me.startFocus),
                       !.fld[f].firstInteractionTime = Null,
                       !.fld[f].timeLastChange = Null,
                       !.fld[f].startFocus = Null]
        ELSE [S EXCEPT !.fld[f].timeLastChange = Null,
                       !.fld[f].startFocus = Null]

\* A blur without the guard on startFocus.
onBlurUnguarded(S, f) ==
    LET me == S.fld[f]
        a == [S EXCEPT !.fld[f].timespent = @ + (now - me.startFocus),
                       !.fld[f].startFocus = Null]
    IN  Call(a, "trackFieldUpdate", f)

\* A change handler without the canCountChange gate.
onChangeUngated(S, f) ==
    LET S1 == [S EXCEPT !.fld[f].timeLastChange = now]
        me == S1.fld[f]
    IN  IF me.startFocus = Null THEN S1
        ELSE [S1 EXCEPT !.sess[f].processed = TRUE,
                        !.fld[f].hasChangedValueSinceFocus = TRUE,
                        !.fld[f].numChanges = @ + 1,
                        !.fld[f].canCountChange = FALSE]

\* A change handler that names itself the entry field at every change.
onChangeOverwritesEntry(S, f) ==
    LET S1 == [S EXCEPT !.fld[f].timeLastChange = now]
        me == S1.fld[f]
    IN  IF ~me.isFocusedCausedAuto /\ me.startFocus = Null THEN S1
        ELSE
        LET S3 == [S1 EXCEPT !.sess[f].processed = TRUE,
                             !.fld[f].hasChangedValueSinceFocus = TRUE,
                             !.fld[f].hesitationtime =
                                 IF me.numChanges = 0
                                 THEN @ + (now - me.startFocus) ELSE @]
            S4 == IF me.canCountChange
                  THEN [S3 EXCEPT !.fld[f].numChanges = @ + 1,
                                  !.fld[f].canCountChange = FALSE]
                  ELSE S3
            S5 == [S4 EXCEPT !.tracker.entryFieldName = f]
            S6 == Call(S5, "setEngagedWithForm", f)
        IN  Call(S6, "trackFieldUpdate", f)

\* A focus handler that counts every focus, new field or not.
onFocusAlwaysCounts(S, f) ==
    LET a == [S EXCEPT !.fld[f].startFocus = now,
                       !.sess[f] = NewSession(S.fld[f].numChanges),
                       !.fld[f].numFocus = @ + 1]
        b == Call(a, "setEngagedWithForm", f)
        c == Call(b, "trackFieldUpdate", f)
        d == Call([c EXCEPT !.tracker.exitFieldName = f], "scheduleSendUpdate", f)
    IN  [d EXCEPT !.tracker.lastFocusedFieldName = f,
                  !.fld[f].canCountChange = TRUE]

\* A reset that forgets the committed time and the change count.
resetKeepsChanges(S, f) ==
    [S EXCEPT !.fld[f].numFocus = 0,
              !.fld[f].numDeletes = 0,
              !.fld[f].numCursor = 0,
              !.fld[f].startFocus = Null,
              !.fld[f].timeLastChange = Null,
              !.fld[f].canCountChange = TRUE,
              !.sess[f] = NewSession(S.fld[f].numChanges)]

\* A reset that leaves the pending delayed blur alone.
resetWithoutCancel(S, f) ==
    [S EXCEPT !.fld[f].timespent = 0,
              !.fld[f].numFocus = 0,
              !.fld[f].numDeletes = 0,
              !.fld[f].numCursor = 0,
              !.fld[f].numChanges = 0,
              !.fld[f].startFocus = Null,
              !.fld[f].timeLastChange = Null,
              !.fld[f].canCountChange = TRUE,
              !.fld[f].hasChangedValueSinceFocus = FALSE,
              !.fld[f].isFocusedCausedAuto = FALSE,
              !.fld[f].firstInteractionTime = Null,
              !.sess[f] = NewSession(0)]

\* A teardown without the _isDestroyed guard that keeps its bookkeeping.
destroyRepeats(S, f) ==
    LET me == S.fld[f]
    IN  [S EXCEPT
            !.fld[f].isDestroyed = TRUE,
            !.dom[f].attached = [e \in Events |-> 0],
            !.dom[f].removeCalls = [e \in Events |-> @[e] + me.eventListeners[e]],
            !.timers = {t \in @ : t.id \notin me.timerSet},
            !.dom[f].clearCalls =
                [i \in TimerIds |-> IF i \in me.timerSet THEN @[i] + 1 ELSE @[i]],
            !.fld[f].element = FALSE,
            !.fld[f].tracker = FALSE,
            !.fld[f].startFocus = Null,
            !.fld[f].timeLastChange = Null]

\* A teardown without the try/catch around each release: the first call that
\* throws ends it.
destroyAborts(S, f) ==
    LET me == S.fld[f]
        d  == S.dom[f]
        S1 == [S EXCEPT !.fld[f].isDestroyed = TRUE]
    IN  IF me.isDestroyed THEN S
        ELSE IF \/ \E e \in d.failRemove : me.eventListeners[e] > 0
                \/ d.failClear \cap me.timerSet # {}
                \/ d.failDisconnect \cap me.mutationObservers # {}
        THEN Throw(S1)
        ELSE [S1 EXCEPT
                !.dom[f].attached = [e \in Events |-> @[e] - me.eventListeners[e]],
                !.dom[f].removeCalls = [e \in Events |-> @[e] + me.eventListeners[e]],
                !.fld[f].eventListeners = [e \in Events |-> 0],
                !.timers = {t \in @ : t.id \notin me.timerSet},
                !.fld[f].timerSet = {},
                !.dom[f].observing = @ \ me.mutationObservers,
                !.fld[f].mutationObservers = {},
                !.fld[f].element = FALSE,
                !.fld[f].nodes = FALSE,
                !.fld[f].tracker = FALSE,
                !.fld[f].startFocus = Null,
                !.fld[f].timeLastChange = Null]

\* A constructor that checks fieldType and category only.
constructorNoSelectorCheck(S, f, c) ==
    IF ~c.fieldType \/ ~c.category THEN Throw(S)
    ELSE [S EXCEPT !.fld[f] = NewField, !.sess[f] = NewSession(0)]

\* --------------------------------------------------------------- handlers
\* new C(tracker, element, fieldName): throws, and yields no instance, unless
\* the class defines all three statics; else the new instance takes the place
\* of the one known under the name.
constructor(S, f, c) ==
    IF ~c.fieldType \/ ~c.category \/ ~c.selector THEN Throw(S)
    ELSE [S EXCEPT !.fld[f] = NewField, !.sess[f] = NewSession(0)]

onFocus(S, f) ==
    LET S1 == [S EXCEPT !.fld[f].startFocus = now,
                        !.sess[f] = NewSession(S.fld[f].numChanges)]
        me == S1.fld[f]
    IN  IF ~me.tracker THEN Throw(S1)
        ELSE
        LET isNewField == f # S1.tracker.lastFocusedFieldName
            S2 == IF isNewField /\ ~me.isFocusedCausedAuto
                  THEN LET a == [S1 EXCEPT !.fld[f].numFocus = @ + 1]
                           b == Call(a, "setEngagedWithForm", f)
                           c == Call(b, "trackFieldUpdate", f)
                           d == [c EXCEPT !.tracker.exitFieldName = f]
                       IN  Call(d, "scheduleSendUpdate", f)
                  ELSE S1
        IN  [S2 EXCEPT !.tracker.lastFocusedFieldName = f,
                       !.fld[f].canCountChange = TRUE]

onBlur(S, f) ==
    LET me == S.fld[f]
    IN  IF me.startFocus = Null THEN S
        ELSE IF me.firstInteractionTime # Null /\ me.hasChangedValueSinceFocus
        THEN [S EXCEPT !.fld[f].timespent = @ + (now - me.firstInteractionTime),
                       !.fld[f].firstInteractionTime = Null,
                       !.fld[f].timeLastChange = Null,
                       !.fld[f].startFocus = Null]
        ELSE IF me.hasChangedValueSinceFocus
        THEN [S EXCEPT !.fld[f].timespent =
                           IF me.timeLastChange # Null /\ me.startFocus # Null
                           THEN @ + (me.timeLastChange - me.startFocus) ELSE @,
                       !.fld[f].timeLastChange = Null,
                       !.fld[f].startFocus = Null]
        ELSE IF ~me.isFocusedCausedAuto
        THEN LET a == [S EXCEPT !.fld[f].timespent = @ + (now - me.startFocus),
                                !.fld[f].hesitationtime =
                                    IF me.numChanges = 0
                                    THEN @ + (now - me.startFocus) ELSE @]
             IN  IF ~me.tracker THEN Throw(a)
                 ELSE LET b == Call(a, "setEngagedWithForm", f)
                          c == Call(b, "trackFieldUpdate", f)
                      IN  [c EXCEPT !.fld[f].startFocus = Null]
        ELSE [S EXCEPT !.fld[f].startFocus = Null]

onChange(S, f) ==
    LET S1 == [S EXCEPT !.fld[f].timeLastChange = now]
        me == S1.fld[f]
    IN  IF ~me.isFocusedCausedAuto /\ me.startFocus = Null THEN S1
        ELSE
        LET S2 == IF me.isFocusedCausedAuto
                  THEN [S1 EXCEPT !.fld[f].startFocus = now] ELSE S1
            start == S2.fld[f].startFocus
            S3 == [S2 EXCEPT !.sess[f].processed = TRUE,
                             !.fld[f].isFocusedCausedAuto = FALSE,
                             !.fld[f].hasChangedValueSinceFocus = TRUE,
                             !.fld[f].hesitationtime =
                                 IF me.numChanges = 0 THEN @ + (now - start) ELSE @]
            S4 == IF me.canCountChange
                  THEN [S3 EXCEPT !.fld[f].numChanges = @ + 1,
                                  !.fld[f].canCountChange = FALSE]
                  ELSE S3
        IN  IF ~me.tracker THEN Throw(S4)
            ELSE
            LET S5 == IF S4.tracker.entryFieldName = NoName
                      THEN [S4 EXCEPT !.tracker.entryFieldName = f] ELSE S4
                S6 == Call(S5, "setEngagedWithForm", f)
            IN  Call(S6, "trackFieldUpdate", f)

trackCursorMovement(S, f) == [S EXCEPT !.fld[f].numCursor = @ + 1]

trackDeletion(S, f) == [S EXCEPT !.fld[f].numDeletes = @ + 1]

\* ------------------------------------------------------------- snapshots
\* Each returns the state it leaves and the value it returns.
getTimeSpent(S, f) ==
    LET S1 == IF S.fld[f].numChanges # 0 /\ S.fld[f].timespent = 0
              THEN [S EXCEPT !.fld[f].timespent = 1] ELSE S
        me == S1.fld[f]
        delta == me.timeLastChange - me.startFocus
    IN  [ S |-> S1,
          v |-> IF me.startFocus = Null \/ me.isFocusedCausedAuto
                THEN me.timespent
                ELSE IF me.timeLastChange # Null
                THEN me.timespent + (IF delta > 0 THEN delta ELSE 0)
                ELSE me.timespent + (now - me.startFocus) ]

getHesitationTime(S, f) ==
    LET me == S.fld[f]
    IN  IF me.numChanges # 0 \/ me.startFocus = Null \/ me.isFocusedCausedAuto
        THEN me.hesitationtime
        ELSE me.hesitationtime + (now - me.startFocus)

getTrackingParams(S, f) ==
    LET ts == getTimeSpent(S, f)
        me == ts.S.fld[f]
    IN  [ S |-> ts.S,
          v |-> [ b |-> FALSE, arg |-> 0, fa_fn |-> f, fa_fts |-> ts.v,
                  fa_fht |-> getHesitationTime(ts.S, f),
                  fa_ff |-> me.numFocus, fa_fch |-> me.numChanges,
                  fa_fd |-> me.numDeletes, fa_fcu |-> me.numCursor ] ]

\* ------------------------------------------------------ timers and helpers
\* setTimeout: a new pending browser timer; ids are handed out in order.
SetTimeout(S, f, kind, delay, prev) ==
    [S EXCEPT !.timers = @ \cup {[id |-> S.nextTimerId, field |-> f, kind |-> kind,
                                  due |-> now + delay, prev |-> prev]},
              !.nextTimerId = @ + 1]

\* clearTimeout: a no-op for an id that is not pending.
ClearTimeout(S, id) == [S EXCEPT !.timers = {t \in @ : t.id # id}]

trackTimer(S, f, id) ==
    IF S.fld[f].isDestroyed THEN S
    ELSE [S EXCEPT !.fld[f].timerSet = @ \cup {id}]

cancelDelayedBlur(S, f) ==
    LET id == S.fld[f].delayedBlurTimer
    IN  IF id = Null THEN S
        ELSE [ClearTimeout(S, id) EXCEPT !.fld[f].timerSet = @ \ {id},
                                         !.fld[f].delayedBlurTimer = Null]

\* A scheduleDelayedBlur that does not cancel the pending timer first.
scheduleWithoutCancel(S, f, delay) ==
    LET id == S.nextTimerId
        S2 == SetTimeout(S, f, "delayedBlur", delay, Null)
        S3 == trackTimer(S2, f, id)
    IN  [S3 EXCEPT !.fld[f].delayedBlurTimer = id]

scheduleDelayedBlur(S, f, delay) ==
    LET S1 == cancelDelayedBlur(S, f)
        id == S1.nextTimerId
        S2 == SetTimeout(S1, f, "delayedBlur", delay, Null)
        S3 == trackTimer(S2, f, id)
    IN  [S3 EXCEPT !.fld[f].delayedBlurTimer = id]

\* A deferred blur that charges hesitation whenever it fires.
delayedBlurCallbackHesitates(S, f) ==
    LET S2 == [S EXCEPT !.fld[f].delayedBlurTimer = Null]
        me == S2.fld[f]
    IN  IF me.startFocus = Null THEN S2
        ELSE [onBlur(S2, f) EXCEPT !.fld[f].hesitationtime = @ + (now - me.startFocus)]

\* A deferred blur that leaves timeLastChange as the last change set it.
delayedBlurCallbackNoStamp(S, f) ==
    onBlur([S EXCEPT !.fld[f].delayedBlurTimer = Null], f)

\* A deferred blur that blurs only a changed field.
delayedBlurCallbackChangedOnly(S, f) ==
    LET me == S.fld[f]
        S2 == [S EXCEPT !.fld[f].delayedBlurTimer = Null]
    IN  IF me.hasChangedValueSinceFocus /\ me.startFocus # Null
        THEN onBlur([S2 EXCEPT !.fld[f].timeLastChange = now], f)
        ELSE S2

\* The callback scheduleDelayedBlur hands to setTimeout.
delayedBlurCallback(S, f) ==
    LET me == S.fld[f]
        S1 == IF me.hasChangedValueSinceFocus /\ me.startFocus # Null
              THEN [S EXCEPT !.fld[f].timeLastChange = now] ELSE S
        S2 == [S1 EXCEPT !.fld[f].delayedBlurTimer = Null]
    IN  onBlur(S2, f)

\* A trackFirstInteraction that focuses at every call.
trackEveryInteraction(S, f) ==
    [ S |-> onFocus([S EXCEPT !.fld[f].firstInteractionTime = now], f),
      v |-> TRUE ]

trackFirstInteraction(S, f) ==
    IF S.fld[f].firstInteractionTime = Null
    THEN [ S |-> onFocus([S EXCEPT !.fld[f].firstInteractionTime = now], f),
           v |-> TRUE ]
    ELSE [ S |-> S, v |-> FALSE ]

resetOnFormSubmit(S, f) ==
    LET S1 == [S EXCEPT !.fld[f].timespent = 0,
                        !.fld[f].numFocus = 0,
                        !.fld[f].numDeletes = 0,
                        !.fld[f].numCursor = 0,
                        !.fld[f].numChanges = 0,
                        !.fld[f].startFocus = Null,
                        !.fld[f].timeLastChange = Null,
                        !.fld[f].canCountChange = TRUE,
                        !.fld[f].hasChangedValueSinceFocus = FALSE,
                        !.fld[f].isFocusedCausedAuto = FALSE,
                        !.fld[f].firstInteractionTime = Null,
                        !.sess[f] = NewSession(0)]
    IN  cancelDelayedBlur(S1, f)

\* ------------------------------------------------------- click widgets
\* SampleRatingField.handleStarClick: focus, change, a deletion when the rating
\* went down, and a blur 100 ms later through a plain setTimeout.
handleStarClick(S, f, rating) ==
    LET prevRating == S.fld[f].lastRating
        newRating == IF rating = prevRating THEN 0 ELSE rating
        S1 == onFocus(S, f)
        S2 == [S1 EXCEPT !.fld[f].lastRating = newRating]
        S3 == onChange(S2, f)
        S4 == IF newRating < prevRating THEN trackDeletion(S3, f) ELSE S3
    IN  IF S1.err THEN S1
        ELSE IF S3.err THEN S3
        ELSE SetTimeout(S4, f, "widgetBlur", WidgetBlurDelay, Null)

\* ImageSelectorField.handleImageClick: focus now, the rest after the DOM has
\* settled; the closure keeps the value selected before the click.
handleImageClick(S, f) ==
    LET S1 == onFocus(S, f)
    IN  IF S1.err THEN S1
        ELSE SetTimeout(S1, f, "imageSettle", ImageSettleDelay,
                        S.fld[f].lastSelectedValue)

\* The settle callback; newSelectedValue is what getSelectedValue() reads.
imageSettleCallback(S, f, prevSelectedValue, newSelectedValue) ==
    LET S1 == [S EXCEPT !.fld[f].lastSelectedValue = newSelectedValue]
        S2 == onChange(S1, f)
        S3 == IF prevSelectedValue # Null /\ newSelectedValue = Null
              THEN trackDeletion(S2, f) ELSE S2
    IN  IF S2.err THEN S2
        ELSE SetTimeout(S3, f, "widgetBlur", WidgetBlurDelay, Null)

\* ------------------------------------------------- listeners and teardown
addTrackedEventListener(S, f, e) ==
    IF S.fld[f].isDestroyed THEN S
    ELSE [S EXCEPT !.dom[f].attached[e] = @ + 1,
                   !.dom[f].added[e] = @ + 1,
                   !.fld[f].eventListeners[e] = @ + 1]

\* A default wiring that does not look whether the interactive element is
\* there.
setupDefaultEventListenersUnguarded(S, f) ==
    LET a == addTrackedEventListener(S, f, "focus")
        b == addTrackedEventListener(a, f, "blur")
        c == addTrackedEventListener(b, f, "input")
        d == addTrackedEventListener(c, f, "keydown")
    IN  addTrackedEventListener(d, f, "click")

\* The default wiring: the five listeners on the interactive element, none
\* when the element's querySelector finds no interactive element.  The
\* lookup itself throws on a destroyed field, whose element is null.
setupDefaultEventListeners(S, f) ==
    IF ~S.fld[f].element THEN Throw(S)
    ELSE IF ~S.dom[f].interactive THEN S
    ELSE
    LET a == addTrackedEventListener(S, f, "focus")
        b == addTrackedEventListener(a, f, "blur")
        c == addTrackedEventListener(b, f, "input")
        d == addTrackedEventListener(c, f, "keydown")
    IN  addTrackedEventListener(d, f, "click")

\* handleKeydown: a cursor key, a deletion key, any other key.
Keys == {"ArrowLeft", "Backspace", "a"}
handleKeydown(S, f, key) ==
    LET S1 == IF key = "ArrowLeft" THEN trackCursorMovement(S, f) ELSE S
    IN  IF key = "Backspace" THEN trackDeletion(S1, f) ELSE S1

\* The listener the default wiring attaches for an event.
listener(S, f, e, key) ==
    CASE e = "focus" -> onFocus(S, f)
      [] e = "blur" -> onBlur(S, f)
      [] e = "input" -> onChange(S, f)
      [] e = "keydown" -> handleKeydown(S, f, key)
      [] e = "click" -> trackCursorMovement(S, f)

\* The browser delivers an event to every listener attached for it.
RECURSIVE dispatch(_, _, _, _, _)
dispatch(S, f, e, key, n) ==
    IF n = 0 THEN S
    ELSE CHOOSE R \in { dispatch(S1, f, e, key, n - 1) :
                           S1 \in { listener(S, f, e, key) } } : TRUE

\* The built BaseField also tracks MutationObservers (dist/index.esm.js).
trackMutationObserver(S, f, o) ==
    LET S1 == [S EXCEPT !.dom[f].observing = @ \cup {o}]
    IN  IF S.fld[f].isDestroyed THEN S1
        ELSE [S1 EXCEPT !.fld[f].mutationObservers = @ \cup {o}]

\* Each removeEventListener, clearTimeout and disconnect sits in its own
\* try/catch: a call that throws (dom.fail*) releases nothing, is logged and
\* the loop goes on.
destroy(S, f) ==
    LET me == S.fld[f]
        d  == S.dom[f]
    IN  IF me.isDestroyed THEN S
        ELSE [S EXCEPT
                !.fld[f].isDestroyed = TRUE,
                !.dom[f].attached =
                    [e \in Events |-> IF e \in d.failRemove THEN @[e]
                                      ELSE @[e] - me.eventListeners[e]],
                !.dom[f].removeCalls = [e \in Events |-> @[e] + me.eventListeners[e]],
                !.fld[f].eventListeners = [e \in Events |-> 0],
                !.timers = {t \in @ : t.id \notin (me.timerSet \ d.failClear)},
                !.dom[f].clearCalls =
                    [i \in TimerIds |-> IF i \in me.timerSet THEN @[i] + 1 ELSE @[i]],
                !.fld[f].timerSet = {},
                !.dom[f].observing = @ \ (me.mutationObservers \ d.failDisconnect),
                !.dom[f].disconnectCalls =
                    [o \in ObserverIds |->
                        IF o \in me.mutationObservers THEN @[o] + 1 ELSE @[o]],
                !.fld[f].mutationObservers = {},
                !.fld[f].element = FALSE,
                !.fld[f].nodes = FALSE,
                !.fld[f].tracker = FALSE,
                !.fld[f].startFocus = Null,
                !.fld[f].timeLastChange = Null]

\* --------------------------------------------------------------- injector
InSeq(x, q) == \E i \in DOMAIN q : q[i] = x

\* The widgets override setupEventListeners and attach their click listeners
\* with plain addEventListener calls.
setupWidgetListeners(S, f) == [S EXCEPT !.dom[f].attached["click"] = @ + 1]

\* A createField that returns the instance although its setupEventListeners
\* threw.
createFieldKeepsBroken(S, el, fieldName, fieldType) ==
    LET reg  == S.page.registry
        hits == {i \in DOMAIN reg : reg[i].fieldType = fieldType}
    IN  IF hits = {} THEN [S |-> S, ok |-> FALSE]
        ELSE
        LET c  == reg[CHOOSE i \in hits : TRUE].class
            S1 == constructor(S, fieldName, c)
        IN  IF ~c.fieldType THEN [S |-> S, ok |-> FALSE]
            ELSE IF S1.err THEN [S |-> S, ok |-> FALSE]
            ELSE IF ~c.setup THEN [S |-> S1, ok |-> TRUE]
            ELSE [S |-> setupWidgetListeners(S1, fieldName), ok |-> TRUE]

\* createField: null (ok = FALSE) for an unknown type, for a class whose
\* static fieldType is not the registered key, and when the constructor or
\* the class's setupEventListeners throws; the error is caught.
createField(S, el, fieldName, fieldType) ==
    LET reg  == S.page.registry
        hits == {i \in DOMAIN reg : reg[i].fieldType = fieldType}
    IN  IF hits = {} THEN [S |-> S, ok |-> FALSE]
        ELSE
        LET c  == reg[CHOOSE i \in hits : TRUE].class
            S1 == constructor(S, fieldName, c)
        IN  IF ~c.fieldType THEN [S |-> S, ok |-> FALSE]
            ELSE IF S1.err THEN [S |-> S, ok |-> FALSE]
            ELSE IF ~c.setup THEN [S |-> S, ok |-> FALSE]
            ELSE [S |-> setupWidgetListeners(S1, fieldName), ok |-> TRUE]

\* An injector that does not look the element up in fieldNodes.
injectElementAgain(S, entry, el) ==
    IF DataName(el) = NoName THEN S
    ELSE LET r == createField(S, el, DataName(el), entry.fieldType)
         IN  IF r.ok
             THEN [r.S EXCEPT
                     !.tracker.fields =
                         Append(@, [fieldName |-> DataName(el),
                                    fieldType |-> entry.fieldType, element |-> el]),
                     !.tracker.fieldNodes = Append(@, el)]
             ELSE r.S

\* The body of the inner forEach of injectCustomFields, for one element.
injectElement(S, entry, el) ==
    IF InSeq(el, S.tracker.fieldNodes) THEN S
    ELSE IF DataName(el) = NoName THEN S
    ELSE LET r == createField(S, el, DataName(el), entry.fieldType)
         IN  IF r.ok
             THEN [r.S EXCEPT
                     !.tracker.fields =
                         Append(@, [fieldName |-> DataName(el),
                                    fieldType |-> entry.fieldType, element |-> el]),
                     !.tracker.fieldNodes = Append(@, el)]
             ELSE r.S

\* form.querySelectorAll(FieldClass.selector).forEach, in document order;
\* the state after one element is the one the next element starts from.
RECURSIVE injectElements(_, _, _)
injectElements(S, entry, i) ==
    IF i > Len(ElementOrder) THEN S
    ELSE LET el == ElementOrder[i]
         IN  CHOOSE R \in
                 { injectElements(S1, entry, i + 1) :
                     S1 \in { IF el \in S.page.form /\ Matches(el, entry.fieldType)
                              THEN injectElement(S, entry, el) ELSE S } } : TRUE

\* Object.entries(fieldClasses).forEach, in insertion order.
RECURSIVE injectTypes(_, _)
injectTypes(S, k) ==
    IF k > Len(S.page.registry) THEN S
    ELSE LET entry == S.page.registry[k]
         IN  CHOOSE R \in
                 { injectTypes(S1, k + 1) :
                     S1 \in { IF entry.class.selector
                              THEN injectElements(S, entry, 1) ELSE S } } : TRUE

injectCustomFields(S) == injectTypes(S, 1)

\* init(customFields): fieldClasses[fieldType] = FieldClass; a key that is
\* already there keeps its place.
register(S, ty, c) ==
    LET reg == S.page.registry
    IN  IF \E i \in DOMAIN reg : reg[i].fieldType = ty
        THEN [S EXCEPT !.page.registry =
                 [i \in DOMAIN reg |-> IF reg[i].fieldType = ty
                                       THEN [fieldType |-> ty, class |-> c]
                                       ELSE reg[i]]]
        ELSE [S EXCEPT !.page.registry = Append(@, [fieldType |-> ty, class |-> c])]

\* -------------------------------------------------------- field categories
\* The FieldCategories enum: its keys and values, in definition order.
FieldCategories ==
    << [key |-> "TEXT", value |-> "FIELD_TEXT"],
       [key |-> "SELECTABLE", value |-> "FIELD_SELECTABLE"],
       [key |-> "CHECKABLE", value |-> "FIELD_CHECKABLE"] >>

\* JavaScript values a caller passes: a string, an array holding one string,
\* a String object, undefined.
JsString(x) == [tag |-> "string", str |-> x]
CategoryStrings ==
    {"FIELD_TEXT", "FIELD_SELECTABLE", "FIELD_CHECKABLE",
     "TEXT", "SELECTABLE", "CHECKABLE",
     "field_text", "field_selectable", "field_checkable",
     "FIELD_TEXT ", "FIELD_", "INVALID_CATEGORY", "Unknown field category", ""}
CategoryInputs ==
    [tag : {"string", "array", "object"}, str : CategoryStrings]
        \cup {[tag |-> "undefined", str |-> ""]}

\* Object.values(o): the values, in key order, as strings.
ObjectValues(o) == [k \in DOMAIN o |-> JsString(o[k].value)]

\* Array.prototype.includes: SameValueZero, which equates a string only with
\* the same string.
includes(arr, x) == \E k \in DOMAIN arr : arr[k] = x

\* A validation by the enum's keys.
isValidFieldCategoryByKey(category) ==
    \E k \in DOMAIN FieldCategories : JsString(FieldCategories[k].key) = category

isValidFieldCategory(category) == includes(ObjectValues(FieldCategories), category)

getSupportedFieldCategories == ObjectValues(FieldCategories)

\* ------------------------------------------------- dynamic field observer
\* reScanFormFields: the native scanForFields (the host's), then the
\* injection again.
reScanFormFields(S) == injectCustomFields(S)

\* setupDynamicFieldObserver: a MutationObserver on the form, with no
\* re-scan timer pending.
setupDynamicFieldObserver(S) ==
    [S EXCEPT !.page.observer = TRUE, !.page.reScanTimeout = Null]

\* An observer callback that arms a new timer and leaves the old one.
observerCallbackNoClear(S, hasNewFields) ==
    IF ~hasNewFields THEN S
    ELSE [SetTimeout(S, NoName, "reScan", ReScanDelay, Null)
             EXCEPT !.page.reScanTimeout = S.nextTimerId]

\* The MutationObserver callback for one batch of mutations: a batch with
\* a new form field clears the pending re-scan timer and arms a new one.
observerCallback(S, hasNewFields) ==
    IF ~hasNewFields THEN S
    ELSE LET S1 == IF S.page.reScanTimeout # Null
                   THEN ClearTimeout(S, S.page.reScanTimeout) ELSE S
         IN  [SetTimeout(S1, NoName, "reScan", ReScanDelay, Null)
                 EXCEPT !.page.reScanTimeout = S.nextTimerId]

\* The re-scan timer's callback.
reScanCallback(S) == [reScanFormFields(S) EXCEPT !.page.reScanTimeout = Null]

\* ---------------------------------------------------------------- commit
Bounded(S) ==
    /\ S.nextTimerId <= (IF \A t \in S.timers : t.kind \in {"imageSettle", "widgetBlur"}
                         THEN MaxWidgetTimers ELSE MaxTimers) + 1
    /\ \A f \in AllFields :
        /\ S.fld[f].numFocus <= MaxCount
        /\ S.fld[f].numChanges <= MaxCount
        /\ S.fld[f].numDeletes <= MaxDeletes
        /\ S.fld[f].numCursor <= MaxCursor
        /\ \A e \in Events : S.dom[f].added[e] <= MaxSetups

Commit(S, name, f, r) ==
    /\ Bounded(S)
    /\ fld' = S.fld
    /\ tracker' = S.tracker
    /\ timers' = S.timers
    /\ nextTimerId' = S.nextTimerId
    /\ dom' = S.dom
    /\ calls' = S.calls
    /\ err' = S.err
    /\ lastOp' = [name |-> name, field |-> f]
    /\ ret' = r
    /\ now' = now
    /\ sess' = S.sess
    /\ hist.on => Len(hist.log) < MaxHist
    /\ hist' = IF hist.on
               THEN [hist EXCEPT !.log =
                        Append(@, [name |-> name, field |-> f, at |-> now,
                                   arg |-> r.arg,
                                   open |-> fld[f].startFocus # Null])]
               ELSE hist
    /\ cls' = cls
    /\ page' = S.page

\* A pending timer may fire once it is due, the earliest-due first.
CanFire(t) ==
    /\ t \in timers
    /\ now >= t.due
    /\ \A u \in timers : u.due > t.due \/ (u.due = t.due /\ u.id >= t.id)

Fired(t) == [World EXCEPT !.timers = @ \ {t}]

\* ---------------------------------------------------------------- actions
Init ==
    /\ now = T0
    /\ fld = [f \in AllFields |-> NewField]
    /\ tracker = NewTracker
    /\ timers = {}
    /\ nextTimerId = 1
    /\ dom = [f \in AllFields |-> NewDom]
    /\ calls = <<>>
    /\ err = FALSE
    /\ lastOp = [name |-> "constructor", field |-> NoName]
    /\ ret = NoRet
    /\ sess = [f \in AllFields |-> NewSession(0)]
    /\ hist = [on |-> FALSE, log |-> <<>>]
    /\ cls = [f \in AllFields |-> FullClass]
    /\ page = NewPage

\* The clock advances by d ms, up to MaxTicks steps of that size.
Tick(d) ==
    /\ now + d <= T0 + MaxTicks * d
    /\ now' = now + d
    /\ lastOp' = [name |-> "tick", field |-> NoName]
    /\ calls' = <<>>
    /\ err' = FALSE
    /\ ret' = NoRet
    /\ UNCHANGED <<fld, tracker, timers, nextTimerId, dom, sess, hist, cls, page>>

OnFocus(f) == Commit(onFocus(World, f), "onFocus", f, NoRet)

OnBlur(f) == Commit(onBlur(World, f), "onBlur", f, NoRet)

OnChange(f) == Commit(onChange(World, f), "onChange", f, NoRet)

TrackCursorMovement(f) ==
    Commit(trackCursorMovement(World, f), "trackCursorMovement", f, NoRet)

TrackDeletion(f) == Commit(trackDeletion(World, f), "trackDeletion", f, NoRet)

GetTrackingParams(f) ==
    LET r == getTrackingParams(World, f)
    IN  Commit(r.S, "getTrackingParams", f, r.v)

TrackFirstInteraction(f) ==
    LET r == trackFirstInteraction(World, f)
    IN  Commit(r.S, "trackFirstInteraction", f, [NoRet EXCEPT !.b = r.v])

ScheduleDelayedBlur(f) ==
    Commit(scheduleDelayedBlur(World, f, DefaultBlurDelay), "scheduleDelayedBlur", f, NoRet)

CancelDelayedBlur(f) ==
    Commit(cancelDelayedBlur(World, f), "cancelDelayedBlur", f, NoRet)

DelayedBlurFires(f) ==
    \E t \in timers :
        /\ t.field = f /\ t.kind = "delayedBlur"
        /\ CanFire(t)
        /\ Commit(delayedBlurCallback(Fired(t), f), "delayedBlurFires", f, NoRet)

ResetOnFormSubmit(f) ==
    Commit(resetOnFormSubmit(World, f), "resetOnFormSubmit", f, NoRet)

SetupEventListeners(f) ==
    Commit(setupDefaultEventListeners(World, f), "setupEventListeners", f, NoRet)

\* The user acts where the field's interactive element is or would be.
DomEvent(f, es) ==
    \E e \in es : \E key \in (IF e = "keydown" THEN Keys ELSE {"a"}) :
        Commit(dispatch(World, f, e, key, dom[f].attached[e]), "domEvent", f, NoRet)

Destroy(f) == Commit(destroy(World, f), "destroy", f, NoRet)

HandleStarClick(f) ==
    \E r \in Stars :
        Commit(handleStarClick(World, f, r), "handleStarClick", f,
               [NoRet EXCEPT !.arg = r])

HandleImageClick(f) ==
    Commit(handleImageClick(World, f), "handleImageClick", f, NoRet)

ImageSettleFires(f) ==
    \E t \in timers : \E v \in SelectedValues :
        /\ t.field = f /\ t.kind = "imageSettle"
        /\ CanFire(t)
        /\ Commit(imageSettleCallback(Fired(t), f, t.prev, v), "imageSettleFires", f,
                  [NoRet EXCEPT !.arg = v])

\* The blur a click widget deferred with a plain setTimeout.
WidgetBlurFires(f) ==
    \E t \in timers :
        /\ t.field = f /\ t.kind = "widgetBlur"
        /\ CanFire(t)
        /\ Commit(onBlur(Fired(t), f), "widgetBlurFires", f, NoRet)

\* The classes a page registers: a complete one, one without selector, one
\* without category, one whose setupEventListeners throws.
RegistrableClasses ==
    {FullClass, [FullClass EXCEPT !.selector = FALSE],
     [FullClass EXCEPT !.category = FALSE], [FullClass EXCEPT !.setup = FALSE]}

RegisterClass ==
    \E ty \in Types : \E c \in RegistrableClasses :
        Commit(register(World, ty, c), "init", NoName, NoRet)

\* The page adds an element to the form, or takes one out of it.
Appear ==
    \E el \in Elements \ page.form :
        Commit([World EXCEPT !.page.form = @ \cup {el}], "appear", NoName, NoRet)

Disappear ==
    \E el \in page.form :
        Commit([World EXCEPT !.page.form = @ \ {el}], "disappear", NoName, NoRet)

\* A page script calls the factory for an element with a name, asking for
\* a type that is registered or not.
CreateField ==
    \E el \in {e \in page.form : DataName(e) # NoName} : \E k \in DOMAIN TypeOrder :
        LET r == createField(World, el, DataName(el), TypeOrder[k])
        IN  /\ dom[DataName(el)].attached["click"] < MaxSetups
            /\ Commit(r.S, "createField", DataName(el),
                      [NoRet EXCEPT !.b = r.ok, !.arg = k])

\* The CustomFields module: its registry holds WysiwygField, RatingField and
\* ImageSelectorField, each with static fieldType and category and without
\* static selector.
BuiltinOrder == <<"wysiwyg", "rating", "imageSelector">>
BuiltinClass == [FullClass EXCEPT !.selector = FALSE]
BuiltinRegistry ==
    [k \in DOMAIN BuiltinOrder |-> [fieldType |-> BuiltinOrder[k], class |-> BuiltinClass]]

\* getAvailableFieldTypes: Object.keys(fieldClasses).
getAvailableFieldTypes(S) ==
    [k \in DOMAIN S.page.registry |-> S.page.registry[k].fieldType]

CreateBuiltin ==
    \E el \in {e \in page.form : DataName(e) # NoName} : \E k \in DOMAIN BuiltinOrder :
        LET r == createField(World, el, DataName(el), BuiltinOrder[k])
        IN  /\ dom[DataName(el)].attached["click"] < MaxSetups
            /\ Commit(r.S, "createField", DataName(el),
                      [NoRet EXCEPT !.b = r.ok, !.arg = k])

\* The initial injection and every re-scan.
InjectCustomFields ==
    Commit(injectCustomFields(World), "injectCustomFields", NoName, NoRet)

\* The per-form callback of matomoFormAnalyticsAsyncInit: the first
\* injection, then the observer.
FormReady ==
    /\ ~page.observer
    /\ Commit(setupDynamicFieldObserver(injectCustomFields(World)),
              "formReady", NoName, NoRet)

\* The page changes the form's subtree and the observer is called with the
\* batch: an added form field, or a node that is none.  A batch late
\* enough that its timer would be due after the last clock step is left out.
MutationBatch ==
    /\ page.observer
    /\ now + ReScanDelay <= T0 + MaxScanTicks * ScanStep
    /\ \/ \E el \in Elements \ page.form :
            Commit(observerCallback([World EXCEPT !.page.form = @ \cup {el}], TRUE),
                   "newFields", NoName, NoRet)
       \/ Commit(observerCallback(World, FALSE), "otherNodes", NoName, NoRet)

ReScanFires ==
    \E t \in timers :
        /\ t.kind = "reScan"
        /\ CanFire(t)
        /\ Commit(reScanCallback(Fired(t)), "reScanFires", NoName, NoRet)

\* The clock of the page with the observer, in steps of ScanStep.
ScanTick ==
    /\ now + ScanStep <= T0 + MaxScanTicks * ScanStep
    /\ now' = now + ScanStep
    /\ lastOp' = [name |-> "tick", field |-> NoName]
    /\ calls' = <<>>
    /\ err' = FALSE
    /\ ret' = NoRet
    /\ UNCHANGED <<fld, tracker, timers, nextTimerId, dom, sess, hist, cls, page>>

\* The class the next construction for the element uses.
DefineClass(f) ==
    /\ \E c \in Classes \ {cls[f]} : cls' = [cls EXCEPT ![f] = c]
    /\ lastOp' = [name |-> "defineClass", field |-> f]
    /\ calls' = <<>>
    /\ err' = FALSE
    /\ ret' = NoRet
    /\ UNCHANGED <<now, fld, tracker, timers, nextTimerId, dom, sess, hist, page>>

Construct(f) == Commit(constructor(World, f, cls[f]), "constructor", f, NoRet)

TrackMutationObserver(f) ==
    \E o \in ObserverIds :
        /\ o \notin dom[f].observing
        /\ Commit(trackMutationObserver(World, f, o), "trackMutationObserver", f, NoRet)

\* The environment: from now on removing the listeners of one event, clearing
\* one timer or disconnecting one observer of the field throws.
NumFaults(f) ==
    Cardinality(dom[f].failRemove) + Cardinality(dom[f].failClear)
        + Cardinality(dom[f].failDisconnect)

Break(f) ==
    /\ NumFaults(f) < MaxFaults
    /\ ~fld[f].isDestroyed
    /\ \/ \E e \in {"focus", "click"} \ dom[f].failRemove :
            dom' = [dom EXCEPT ![f].failRemove = @ \cup {e}]
       \/ \E i \in TimerIds \ dom[f].failClear :
            dom' = [dom EXCEPT ![f].failClear = @ \cup {i}]
       \/ \E o \in ObserverIds \ dom[f].failDisconnect :
            dom' = [dom EXCEPT ![f].failDisconnect = @ \cup {o}]
    /\ lastOp' = [name |-> "break", field |-> f]
    /\ calls' = <<>>
    /\ err' = FALSE
    /\ ret' = NoRet
    /\ UNCHANGED <<now, fld, tracker, timers, nextTimerId, sess, hist, cls, page>>

\* Another field of the same form takes the focus: what its onFocus does to
\* the shared tracker.
OtherFieldFocus(g) ==
    /\ tracker' = [tracker EXCEPT
                     !.exitFieldName = IF g # tracker.lastFocusedFieldName THEN g ELSE @,
                     !.lastFocusedFieldName = g]
    /\ lastOp' = [name |-> "otherFieldFocus", field |-> g]
    /\ calls' = <<>>
    /\ err' = FALSE
    /\ ret' = NoRet
    /\ UNCHANGED <<now, fld, timers, nextTimerId, dom, sess, hist, cls, page>>

\* The host marks the field's focus as auto-induced: it writes the public
\* attribute that onFocus, onBlur and onChange read.
HostAutoFocus(f) ==
    /\ ~fld[f].isFocusedCausedAuto
    /\ fld' = [fld EXCEPT ![f].isFocusedCausedAuto = TRUE]
    /\ lastOp' = [name |-> "hostAutoFocus", field |-> f]
    /\ calls' = <<>>
    /\ err' = FALSE
    /\ ret' = NoRet
    /\ UNCHANGED <<now, tracker, timers, nextTimerId, dom, sess, hist, cls, page>>

\* The session machine: the handlers, the snapshot and the reset.
Next ==
    \/ Tick(TickMs)
    \/ OtherFieldFocus("f2")
    \/ \E f \in Fields :
        \/ OnFocus(f)
        \/ OnBlur(f)
        \/ OnChange(f)
        \/ TrackCursorMovement(f)
        \/ TrackDeletion(f)
        \/ GetTrackingParams(f)
        \/ ResetOnFormSubmit(f)

Spec == Init /\ [][Next]_vars

\* The handlers with the deferred blur of the click-driven widgets.
NextBlur ==
    \/ Tick(TickMs)
    \/ \E f \in Fields :
        \/ OnFocus(f)
        \/ OnBlur(f)
        \/ OnChange(f)
        \/ ScheduleDelayedBlur(f)
        \/ CancelDelayedBlur(f)
        \/ DelayedBlurFires(f)
        \/ ResetOnFormSubmit(f)

SpecBlur == Init /\ [][NextBlur]_vars

\* Wiring and teardown.
NextLife ==
    \/ Tick(TickMs)
    \/ \E f \in Fields :
        \/ SetupEventListeners(f)
        \/ Destroy(f)
        \/ OnFocus(f)
        \/ OnChange(f)
        \/ ScheduleDelayedBlur(f)
        \/ CancelDelayedBlur(f)
        \/ DelayedBlurFires(f)

SpecLife == Init /\ [][NextLife]_vars

\* Teardown in an environment where single release calls throw.
NextFault ==
    \/ Tick(TickMs)
    \/ \E f \in Fields :
        \/ SetupEventListeners(f)
        \/ ScheduleDelayedBlur(f)
        \/ TrackMutationObserver(f)
        \/ Break(f)
        \/ Destroy(f)
        \/ DelayedBlurFires(f)

SpecFault == Init /\ [][NextFault]_vars

\* Construction from classes with and without the required statics.
NextNew ==
    \/ Tick(TickMs)
    \/ \E f \in Fields :
        \/ DefineClass(f)
        \/ Construct(f)
        \/ OnFocus(f)
        \/ OnChange(f)
        \/ OnBlur(f)

SpecNew == Init /\ [][NextNew]_vars

\* Click-driven fields: the first-interaction helper with the handlers.
NextFirst ==
    \/ Tick(TickMs)
    \/ OtherFieldFocus("f2")
    \/ \E f \in Fields :
        \/ TrackFirstInteraction(f)
        \/ OnChange(f)
        \/ OnBlur(f)
        \/ ScheduleDelayedBlur(f)
        \/ DelayedBlurFires(f)
        \/ ResetOnFormSubmit(f)

SpecFirst == Init /\ [][NextFirst]_vars

\* Recorded runs of a click-driven field that also receives focus events:
\* at most MaxHist handler calls.
InitClick ==
    /\ now = T0
    /\ fld = [f \in AllFields |-> NewField]
    /\ tracker \in {NewTracker, [NewTracker EXCEPT !.lastFocusedFieldName = "f2"]}
    /\ timers = {}
    /\ nextTimerId = 1
    /\ dom = [f \in AllFields |-> NewDom]
    /\ calls = <<>>
    /\ err = FALSE
    /\ lastOp = [name |-> "constructor", field |-> NoName]
    /\ ret = NoRet
    /\ sess = [f \in AllFields |-> NewSession(0)]
    /\ hist = [on |-> TRUE, log |-> <<>>]
    /\ cls = [f \in AllFields |-> FullClass]
    /\ page = NewPage

NextClick ==
    \/ Tick(TickMs)
    \/ \E f \in Fields :
        \/ TrackFirstInteraction(f)
        \/ OnFocus(f)
        \/ OnChange(f)
        \/ OnBlur(f)

SpecClick == InitClick /\ [][NextClick]_vars

\* The handlers on a field whose focus the host may mark as auto-induced.
NextAuto ==
    \/ Tick(TickMs)
    \/ \E f \in Fields :
        \/ HostAutoFocus(f)
        \/ OnFocus(f)
        \/ OnBlur(f)
        \/ OnChange(f)

SpecAuto == Init /\ [][NextAuto]_vars

\* Two fields of one form on the same tracker, within one clock reading.
NextShared ==
    \/ \E f \in AllFields :
        \/ OnFocus(f)
        \/ OnChange(f)
        \/ OnBlur(f)
        \/ ResetOnFormSubmit(f)

SpecShared == Init /\ [][NextShared]_vars

\* Two fields with the default wiring on one form, within one clock
\* reading; the first field's element may lack its interactive element.
InitWire ==
    /\ now = T0
    /\ fld = [f \in AllFields |-> NewField]
    /\ tracker = NewTracker
    /\ timers = {}
    /\ nextTimerId = 1
    /\ \E b \in BOOLEAN :
          dom = [f \in AllFields |->
                    IF f = "f1" THEN [NewDom EXCEPT !.interactive = b] ELSE NewDom]
    /\ calls = <<>>
    /\ err = FALSE
    /\ lastOp = [name |-> "constructor", field |-> NoName]
    /\ ret = NoRet
    /\ sess = [f \in AllFields |-> NewSession(0)]
    /\ hist = [on |-> FALSE, log |-> <<>>]
    /\ cls = [f \in AllFields |-> FullClass]
    /\ page = NewPage

NextWire ==
    \/ SetupEventListeners("f1")
    \/ SetupEventListeners("f2")
    \/ DomEvent("f1", Events)
    \/ DomEvent("f2", {"focus", "input"})

SpecWire == InitWire /\ [][NextWire]_vars

\* The synthetic focus, change, blur cycle under a browser whose clock
\* advances and whose due timers fire.  A deferred blur is scheduled only
\* while its timer can still be due before the last clock step.
ScheduleInTime(f) ==
    /\ now + DefaultBlurDelay <= T0 + MaxTicks * TickMs
    /\ ScheduleDelayedBlur(f)

NextCycle ==
    \/ Tick(TickMs)
    \/ \E f \in Fields :
        \/ OnFocus(f)
        \/ OnChange(f)
        \/ OnBlur(f)
        \/ ScheduleInTime(f)
        \/ CancelDelayedBlur(f)
        \/ DelayedBlurFires(f)
        \/ ResetOnFormSubmit(f)

SpecCycle ==
    /\ Init /\ [][NextCycle]_vars
    /\ WF_vars(Tick(TickMs))
    /\ \A f \in Fields : WF_vars(DelayedBlurFires(f))

\* Every sequence of first interactions, focus events, changes and blurs on
\* a field discovered at T0.
discoveredDate == T0

NextMix ==
    \/ Tick(TickMs)
    \/ \E f \in Fields :
        \/ TrackFirstInteraction(f)
        \/ OnFocus(f)
        \/ OnChange(f)
        \/ OnBlur(f)

SpecMix == Init /\ [][NextMix]_vars

\* Two click widgets on one form: a rating field and an image selector.
NextWidgets ==
    \/ Tick(TickMs)
    \/ HandleStarClick("f1")
    \/ HandleImageClick("f2")
    \/ ImageSettleFires("f2")
    \/ \E f \in AllFields : WidgetBlurFires(f)

SpecWidgets == Init /\ [][NextWidgets]_vars

\* Discovery: registration, a changing form, injection and re-scans.
NextInject ==
    \/ RegisterClass
    \/ Appear
    \/ Disappear
    \/ InjectCustomFields

SpecInject == Init /\ [][NextInject]_vars

\* The factory called by the page and by the injector.
NextCreate ==
    \/ RegisterClass
    \/ Appear
    \/ CreateField
    \/ InjectCustomFields

SpecCreate == Init /\ [][NextCreate]_vars

\* The category functions, applied to the value the caller holds.
IsValidFieldCategory ==
    Commit(World, "isValidFieldCategory", NoName,
           [ret EXCEPT !.b = isValidFieldCategory(ret.arg)])

GetSupportedFieldCategories ==
    Commit(World, "getSupportedFieldCategories", NoName,
           [ret EXCEPT !.fa_fn = getSupportedFieldCategories])

InitCategories ==
    /\ now = T0
    /\ fld = [f \in AllFields |-> NewField]
    /\ tracker = NewTracker
    /\ timers = {}
    /\ nextTimerId = 1
    /\ dom = [f \in AllFields |-> NewDom]
    /\ calls = <<>>
    /\ err = FALSE
    /\ lastOp = [name |-> "constructor", field |-> NoName]
    /\ \E c \in CategoryInputs : ret = [NoRet EXCEPT !.arg = c, !.fa_fn = <<>>]
    /\ sess = [f \in AllFields |-> NewSession(0)]
    /\ hist = [on |-> FALSE, log |-> <<>>]
    /\ cls = [f \in AllFields |-> FullClass]
    /\ page = NewPage

NextCategories ==
    \/ IsValidFieldCategory
    \/ GetSupportedFieldCategories

SpecCategories == InitCategories /\ [][NextCategories]_vars

\* The factory of the CustomFields module, called by the page for the
\* elements of a changing form.
InitBuiltin ==
    /\ now = T0
    /\ fld = [f \in AllFields |-> NewField]
    /\ tracker = NewTracker
    /\ timers = {}
    /\ nextTimerId = 1
    /\ dom = [f \in AllFields |-> NewDom]
    /\ calls = <<>>
    /\ err = FALSE
    /\ lastOp = [name |-> "constructor", field |-> NoName]
    /\ ret = NoRet
    /\ sess = [f \in AllFields |-> NewSession(0)]
    /\ hist = [on |-> FALSE, log |-> <<>>]
    /\ cls = [f \in AllFields |-> FullClass]
    /\ page = [NewPage EXCEPT !.registry = BuiltinRegistry]

NextBuiltin ==
    \/ Tick(TickMs)
    \/ Appear
    \/ Disappear
    \/ CreateBuiltin

SpecBuiltin == InitBuiltin /\ [][NextBuiltin]_vars

\* A page with a form observer: init has registered a class for each type
\* or for one of them, the form is found later, fields are added to it while
\* the clock runs.  Timers of the browser fire and its clock advances
\* whenever they can.
InitScan ==
    /\ now = T0
    /\ fld = [f \in AllFields |-> NewField]
    /\ tracker = NewTracker
    /\ timers = {}
    /\ nextTimerId = 1
    /\ dom = [f \in AllFields |-> NewDom]
    /\ calls = <<>>
    /\ err = FALSE
    /\ lastOp = [name |-> "constructor", field |-> NoName]
    /\ ret = NoRet
    /\ sess = [f \in AllFields |-> NewSession(0)]
    /\ hist = [on |-> FALSE, log |-> <<>>]
    /\ cls = [f \in AllFields |-> FullClass]
    /\ \E n \in 1..2 :
          page = [NewPage EXCEPT !.registry =
                     [k \in 1..n |-> [fieldType |-> TypeOrder[k], class |-> FullClass]]]

NextScan ==
    \/ FormReady
    \/ MutationBatch
    \/ ReScanFires
    \/ ScanTick

SpecScan == InitScan /\ [][NextScan]_vars /\ WF_vars(ScanTick) /\ WF_vars(ReScanFires)

\* Scenario runs of the rating widget: a field built on a widget that shows
\* one filled star, at most MaxHist clicks and timer firings, each recorded.
InitB ==
    /\ now = T0
    /\ fld = [f \in AllFields |-> [NewField EXCEPT !.lastRating = 1]]
    /\ tracker = NewTracker
    /\ timers = {}
    /\ nextTimerId = 1
    /\ dom = [f \in AllFields |-> NewDom]
    /\ calls = <<>>
    /\ err = FALSE
    /\ lastOp = [name |-> "constructor", field |-> NoName]
    /\ ret = NoRet
    /\ sess = [f \in AllFields |-> NewSession(0)]
    /\ hist = [on |-> TRUE, log |-> <<>>]
    /\ cls = [f \in AllFields |-> FullClass]
    /\ page = NewPage

NextB ==
    \/ Tick(TickMs)
    \/ \E f \in Fields :
        \/ HandleStarClick(f)
        \/ WidgetBlurFires(f)

SpecB == InitB /\ [][NextB]_vars

\* Scenario runs: a fresh field, a host whose last focused field is not this
\* one, at most MaxHist handler calls, each recorded with the time it ran.
ChangeAfter == 6 * TickMs
BlurAfter == 10 * TickMs

InitA ==
    /\ now \in {T0, T0 + TickMs}
    /\ fld = [f \in AllFields |-> NewField]
    /\ tracker \in {NewTracker, [NewTracker EXCEPT !.lastFocusedFieldName = "f2"]}
    /\ timers = {}
    /\ nextTimerId = 1
    /\ dom = [f \in AllFields |-> NewDom]
    /\ calls = <<>>
    /\ err = FALSE
    /\ lastOp = [name |-> "constructor", field |-> NoName]
    /\ ret = NoRet
    /\ sess = [f \in AllFields |-> NewSession(0)]
    /\ hist = [on |-> TRUE, log |-> <<>>]
    /\ cls = [f \in AllFields |-> FullClass]
    /\ page = NewPage

NextA ==
    \/ Tick(ChangeAfter)
    \/ Tick(BlurAfter)
    \/ \E f \in Fields :
        \/ OnFocus(f)
        \/ OnChange(f)
        \/ OnBlur(f)

SpecA == InitA /\ [][NextA]_vars

\* ============================================================= properties
Counters == {"timespent", "hesitationtime", "numFocus", "numChanges",
             "numDeletes", "numCursor"}

\* Number of calls of the host callback cb made by the last operation.
CountCalls(cb) == Cardinality({i \in DOMAIN calls : calls[i].cb = cb})

\* C1: for every operation other than the reset, each of timespent,
\* hesitationtime, numFocus, numChanges, numDeletes and numCursor is after the
\* operation at least what it was before, and never negative.
C1_MonotoneCounters ==
    [][lastOp'.name # "resetOnFormSubmit" =>
         \A f \in Fields : \A c \in Counters :
             fld'[f][c] >= fld[f][c] /\ fld'[f][c] >= 0]_vars

\* C2: an onChange on a field with no open session (startFocus null, not
\* auto-focused) changes no attribute of the field, timeLastChange included,
\* writes nothing to the host and calls none of its callbacks.
C2_IgnoredChangeIsNoOp ==
    [][\A f \in Fields :
         (lastOp'.name = "onChange" /\ lastOp'.field = f
            /\ fld[f].startFocus = Null /\ ~fld[f].isFocusedCausedAuto)
         => (fld'[f] = fld[f] /\ tracker' = tracker /\ calls' = <<>>)]_vars

\* The run of Scenario A: onFocus at t, onChange 300 ms later, onBlur 500 ms
\* after that, and nothing else.
ScenarioA(f) ==
    \E t \in {T0, T0 + TickMs} :
        [i \in DOMAIN hist.log |-> <<hist.log[i].name, hist.log[i].field, hist.log[i].at>>]
            = << <<"onFocus", f, t>>, <<"onChange", f, t + ChangeAfter>>,
                 <<"onBlur", f, t + ChangeAfter + BlurAfter>> >>

\* C3: after Scenario A on a fresh field whose host last focused another
\* field, numFocus = 1, numChanges = 1, hesitationtime = 300 and timespent is
\* the 300 ms from the focus to the last change.
C3_ScenarioA ==
    \A f \in Fields :
        ScenarioA(f) => /\ fld[f].numFocus = 1
                        /\ fld[f].numChanges = 1
                        /\ fld[f].hesitationtime = ChangeAfter
                        /\ fld[f].timespent = ChangeAfter

\* C3 as first stated: the same run leaves timespent = 500.
C3_ScenarioA_Stated ==
    \A f \in Fields :
        ScenarioA(f) => /\ fld[f].numFocus = 1
                        /\ fld[f].numChanges = 1
                        /\ fld[f].hesitationtime = ChangeAfter
                        /\ fld[f].timespent = BlurAfter

C3_Witness ==
    \E f \in Fields :
        /\ ScenarioA(f)
        /\ lastOp.name = "onBlur"
        /\ fld[f].startFocus = Null
        /\ tracker.lastFocusedFieldName = f

\* C4: getTrackingParams, with the getTimeSpent and getHesitationTime it
\* calls, leaves every field and the host tracker exactly as they were.
C4_SnapshotIsPure ==
    [][lastOp'.name = "getTrackingParams" =>
         (fld' = fld /\ tracker' = tracker /\ calls' = <<>>)]_vars

\* C5: between one onFocus and the next onFocus or reset, numChanges has grown
\* by exactly 1 if an onChange was processed in the open session, and by 0
\* otherwise.
C5_OneChangePerSession ==
    \A f \in Fields :
        fld[f].numChanges = sess[f].base + (IF sess[f].processed THEN 1 ELSE 0)

\* A second onChange has been processed in one and the same session: the first
\* came at the very time of the focus (no hesitation), the last came later.
C5_Witness ==
    \E f \in Fields :
        /\ lastOp.name = "onChange"
        /\ fld[f].startFocus # Null
        /\ fld[f].timeLastChange > fld[f].startFocus
        /\ fld[f].hesitationtime = 0
        /\ sess[f].processed /\ sess[f].base = 0
        /\ fld[f].numChanges = 1

\* C6: hesitation time is charged only up to the first change.  With
\* numChanges = 0 and an open session an onChange adds exactly now - startFocus
\* and makes numChanges positive; with numChanges > 0 no operation, the blur
\* run by the deferred-blur timer included, changes hesitationtime.
C6_HesitationAccounting ==
    [][\A f \in Fields :
         /\ (lastOp'.name = "onChange" /\ lastOp'.field = f
               /\ fld[f].numChanges = 0 /\ fld[f].startFocus # Null)
            => /\ fld'[f].hesitationtime =
                      fld[f].hesitationtime + (now - fld[f].startFocus)
               /\ fld'[f].numChanges = 1
         /\ fld[f].numChanges > 0
            => fld'[f].hesitationtime = fld[f].hesitationtime]_vars

\* The deferred blur has closed a session whose first change came one tick
\* after the focus: that tick is all the hesitation charged.
C6_Witness ==
    \E f \in Fields :
        /\ lastOp.name = "delayedBlurFires"
        /\ fld[f].startFocus = Null
        /\ fld[f].numChanges > 0
        /\ fld[f].hesitationtime = TickMs
        /\ fld[f].timespent > 0

\* C7: onFocus adds exactly 1 to numFocus and calls setEngagedWithForm,
\* trackFieldUpdate and scheduleSendUpdate once each, in that order, if and
\* only if the field is not the host's last focused field and the focus is
\* not automatic; otherwise it leaves numFocus alone and calls nothing.  It
\* always leaves lastFocusedFieldName = the field and canCountChange = true.
\* So a second onFocus in a row adds nothing, and every operation calls
\* scheduleSendUpdate as many times as it increments numFocus.
C7_FocusCounting ==
    [][\A f \in Fields :
         /\ (lastOp'.name = "onFocus" /\ lastOp'.field = f)
            => LET isNew == f # tracker.lastFocusedFieldName
                            /\ ~fld[f].isFocusedCausedAuto
               IN  /\ isNew => /\ fld'[f].numFocus = fld[f].numFocus + 1
                               /\ [i \in DOMAIN calls' |-> calls'[i].cb] =
                                     <<"setEngagedWithForm", "trackFieldUpdate",
                                       "scheduleSendUpdate">>
                   /\ ~isNew => /\ fld'[f].numFocus = fld[f].numFocus
                                /\ calls' = <<>>
                   /\ tracker'.lastFocusedFieldName = f
                   /\ fld'[f].canCountChange
                   /\ (lastOp.name = "onFocus" /\ lastOp.field = f)
                      => fld'[f].numFocus = fld[f].numFocus
         /\ lastOp'.name # "resetOnFormSubmit"
            => Cardinality({i \in DOMAIN calls' : calls'[i].cb = "scheduleSendUpdate"})
                   = fld'[f].numFocus - fld[f].numFocus]_vars

\* The field has been focused, left for another field, and focused again: the
\* second focus counted, with its three callbacks.
C7_Witness ==
    \E f \in Fields :
        /\ lastOp = [name |-> "onFocus", field |-> f]
        /\ fld[f].numFocus = 2
        /\ Len(calls) = 3 /\ CountCalls("scheduleSendUpdate") = 1
        /\ tracker.lastFocusedFieldName = f

C9_BlurWithoutSession ==
    [][\A f \in Fields :
         (lastOp'.name = "onBlur" /\ lastOp'.field = f /\ fld[f].startFocus = Null)
         => /\ fld' = fld /\ tracker' = tracker /\ calls' = <<>>
            /\ timers' = timers /\ dom' = dom /\ ~err']_vars

\* An onBlur has run on a field that was focused earlier but had no open
\* session: a closing blur of an unchanged field would have called the host.
C9_Witness ==
    \E f \in Fields :
        /\ lastOp = [name |-> "onBlur", field |-> f]
        /\ fld[f].startFocus = Null
        /\ ~fld[f].hasChangedValueSinceFocus
        /\ fld[f].numFocus > 0
        /\ calls = <<>>

\* C10: destroy is idempotent.  A destroy of a destroyed field changes nothing
\* and raises nothing; over all the destroy calls every tracked listener is
\* removed exactly once and every timer is cleared at most once, the timers
\* tracked at the first destroy exactly once.
C10_DestroyIdempotent ==
    /\ [][\A f \in Fields :
            (lastOp'.name = "destroy" /\ lastOp'.field = f /\ fld[f].isDestroyed)
            => /\ fld' = fld /\ tracker' = tracker /\ timers' = timers
               /\ dom' = dom /\ calls' = <<>> /\ ~err']_vars
    /\ [][\A f \in Fields :
            (lastOp'.name = "destroy" /\ lastOp'.field = f /\ ~fld[f].isDestroyed)
            => /\ ~err'
               /\ \A i \in TimerIds :
                     dom'[f].clearCalls[i] = (IF i \in fld[f].timerSet THEN 1 ELSE 0)
               /\ \A t \in timers' : t.id \notin fld[f].timerSet]_vars
    /\ [](\A f \in Fields :
            /\ \A i \in TimerIds : dom[f].clearCalls[i] <= 1
            /\ fld[f].isDestroyed =>
                  /\ \A e \in Events : /\ dom[f].removeCalls[e] = dom[f].added[e]
                                       /\ dom[f].attached[e] = 0
                  /\ fld[f].timerSet = {})

\* destroy has just run a second time: the field's listeners had been wired,
\* the first destroy cleared its deferred-blur timer and nulled startFocus,
\* and an onFocus that came in between has set startFocus again.
C10_Witness ==
    \E f \in Fields :
        /\ lastOp = [name |-> "destroy", field |-> f]
        /\ fld[f].isDestroyed
        /\ \A e \in Events : dom[f].added[e] = 1 /\ dom[f].removeCalls[e] = 1
        /\ \E i \in TimerIds : dom[f].clearCalls[i] = 1
        /\ fld[f].startFocus # Null

\* C11: when removing a listener, clearing a timer or disconnecting an
\* observer throws during destroy, destroy raises nothing, every other tracked
\* listener, timer and observer is released, the tracked collections are
\* empty and element, nodes and tracker are null afterwards.
C11_DestroyFaultTolerant ==
    [][\A f \in Fields :
         (lastOp'.name = "destroy" /\ lastOp'.field = f /\ ~fld[f].isDestroyed)
         => /\ ~err'
            /\ \A e \in Events :
                  /\ fld'[f].eventListeners[e] = 0
                  /\ e \notin dom[f].failRemove => dom'[f].attached[e] = 0
            /\ fld'[f].timerSet = {}
            /\ \A t \in timers' :
                  t.id \in fld[f].timerSet => t.id \in dom[f].failClear
            /\ fld'[f].mutationObservers = {}
            /\ \A o \in dom'[f].observing :
                  o \in fld[f].mutationObservers => o \in dom[f].failDisconnect
            /\ ~fld'[f].element /\ ~fld'[f].nodes /\ ~fld'[f].tracker]_vars

\* destroy has run where removing the focus listener and clearing the pending
\* blur timer threw: both are still live, the click listener and the observer
\* are released, and nothing was raised.
C11_Witness ==
    \E f \in Fields :
        /\ lastOp = [name |-> "destroy", field |-> f]
        /\ fld[f].isDestroyed /\ ~err
        /\ dom[f].failRemove = {"focus"} /\ dom[f].attached["focus"] = 1
        /\ dom[f].added["click"] = 1 /\ dom[f].attached["click"] = 0
        /\ \E t \in timers : t.id \in dom[f].failClear
        /\ \E o \in ObserverIds : dom[f].disconnectCalls[o] = 1
        /\ dom[f].observing = {}

\* C12: once destroy has run, no listener and no timer registered through the
\* tracking helpers or scheduleDelayedBlur, before or after the destroy, is
\* live: no listener is attached, no delayed-blur timer is pending and no
\* delayed-blur callback runs on the destroyed field.
C12_NothingLiveAfterDestroy ==
    /\ [](\A f \in Fields :
            fld[f].isDestroyed =>
                /\ \A e \in Events : dom[f].attached[e] = 0
                /\ \A t \in timers : t.field # f)
    /\ [][\A f \in Fields :
            (lastOp'.name = "delayedBlurFires" /\ lastOp'.field = f)
            => ~fld[f].isDestroyed]_vars

\* C13: constructing a field from a class that omits fieldType, category or
\* selector raises an error and yields no instance; from a class that defines
\* all three it succeeds, with timespent, hesitationtime and the four counters
\* 0, startFocus, timeLastChange and firstInteractionTime null, canCountChange
\* true and isFocusedCausedAuto and hasChangedValueSinceFocus false.
C13_Constructor ==
    [][\A f \in Fields :
         (lastOp'.name = "constructor" /\ lastOp'.field = f)
         => LET ok == cls[f].fieldType /\ cls[f].category /\ cls[f].selector
            IN  /\ err' <=> ~ok
                /\ ~ok => fld' = fld
                /\ ok => /\ \A c \in Counters : fld'[f][c] = 0
                         /\ fld'[f].startFocus = Null
                         /\ fld'[f].timeLastChange = Null
                         /\ fld'[f].firstInteractionTime = Null
                         /\ fld'[f].canCountChange
                         /\ ~fld'[f].isFocusedCausedAuto
                         /\ ~fld'[f].hasChangedValueSinceFocus]_vars

\* A construction from a class without selector has just failed, and the
\* instance built earlier for the element, which counted a change, is still
\* the one in place.
C13_Witness ==
    \E f \in Fields :
        /\ lastOp = [name |-> "constructor", field |-> f]
        /\ err
        /\ cls[f] = [FullClass EXCEPT !.selector = FALSE]
        /\ fld[f].numChanges = 1
        /\ fld[f].hasChangedValueSinceFocus

\* The pending delayed-blur timers of a field.
PendingBlurs(f) == {t \in timers : t.field = f /\ t.kind = "delayedBlur"}

\* C14: at most one delayed-blur timer is pending per field, and it is the one
\* _delayedBlurTimer names.  A scheduleDelayedBlur leaves exactly one pending,
\* the timer it created, so k schedules in a row end in one onBlur; after a
\* cancelDelayedBlur none is pending.
C14_OneDelayedBlur ==
    /\ [](\A f \in Fields :
            /\ Cardinality(PendingBlurs(f)) <= 1
            /\ \A t \in PendingBlurs(f) : fld[f].delayedBlurTimer = t.id)
    /\ [][\A f \in Fields :
            /\ (lastOp'.name = "scheduleDelayedBlur" /\ lastOp'.field = f)
               => /\ Cardinality({t \in timers' : t.field = f}) = 1
                  /\ \A t \in timers' :
                        t.field = f => /\ t.id = nextTimerId
                                       /\ t.due = now + DefaultBlurDelay
            /\ (lastOp'.name = "cancelDelayedBlur" /\ lastOp'.field = f)
               => /\ {t \in timers' : t.field = f} = {}
                  /\ fld'[f].delayedBlurTimer = Null
            /\ (lastOp'.name = "delayedBlurFires" /\ lastOp'.field = f)
               => {t \in timers' : t.field = f} = {}]_vars

\* scheduleDelayedBlur has run a second time before the first timer could
\* fire: only the second timer is pending.
C14_Witness ==
    \E f \in Fields :
        /\ lastOp = [name |-> "scheduleDelayedBlur", field |-> f]
        /\ now < T0 + DefaultBlurDelay
        /\ nextTimerId = 3
        /\ \E t \in timers : t.id = 2 /\ t.due = now + DefaultBlurDelay
        /\ fld[f].delayedBlurTimer = 2
        /\ fld[f].timerSet = {2}

\* C15: with firstInteractionTime unset, trackFirstInteraction returns true,
\* sets firstInteractionTime to now and runs onFocus once (startFocus = now,
\* the host's last focused field is the field, canCountChange true, numFocus
\* and scheduleSendUpdate once more iff the field is new to the host).  With
\* firstInteractionTime set it returns false and changes nothing of the field
\* or the host.
C15_FirstInteraction ==
    [][\A f \in Fields :
         (lastOp'.name = "trackFirstInteraction" /\ lastOp'.field = f)
         => IF fld[f].firstInteractionTime = Null
            THEN LET n == IF f # tracker.lastFocusedFieldName THEN 1 ELSE 0
                 IN  /\ ret'.b
                     /\ fld'[f].firstInteractionTime = now
                     /\ fld'[f].startFocus = now
                     /\ fld'[f].canCountChange
                     /\ tracker'.lastFocusedFieldName = f
                     /\ fld'[f].numFocus = fld[f].numFocus + n
                     /\ Cardinality({i \in DOMAIN calls' :
                                       calls'[i].cb = "scheduleSendUpdate"}) = n
            ELSE /\ ~ret'.b
                 /\ fld' = fld /\ tracker' = tracker /\ calls' = <<>>
                 /\ timers' = timers /\ dom' = dom /\ ~err']_vars

\* A later trackFirstInteraction has returned false while the session opened
\* by the first one, one tick earlier, is still open.
C15_Witness ==
    \E f \in Fields :
        /\ lastOp = [name |-> "trackFirstInteraction", field |-> f]
        /\ ~ret.b /\ calls = <<>>
        /\ fld[f].firstInteractionTime # Null
        /\ fld[f].startFocus = fld[f].firstInteractionTime
        /\ now > fld[f].startFocus
        /\ fld[f].numFocus = 1

\* C16: in every handler the writes to the host's lastFocusedFieldName,
\* exitFieldName and entryFieldName come before the host callbacks of the same
\* handler: every callback observes the host names as the handler leaves them.
C16_WritesBeforeCallbacks ==
    [][\A i \in DOMAIN calls' : calls'[i].names = tracker']_vars

\* C17: among the fields that share the host tracker at most one has an open
\* focus session (startFocus non-null) at any time, whatever the order of
\* clicks on the widgets and of their timers.
C17_SingleOpenSession ==
    Cardinality({f \in AllFields : fld[f].startFocus # Null}) <= 1

\* The run of Scenario B: from rating 1, a click on star 4, a click on star 2
\* and the two deferred blurs, the first of them before or after the second
\* click.
ScenarioB(f) ==
    /\ Len(hist.log) = 4
    /\ \A i \in 1..4 : hist.log[i].field = f
    /\ hist.log[1].name = "handleStarClick" /\ hist.log[1].arg = 4
    /\ \E i \in {2, 3} :
          /\ hist.log[i].name = "handleStarClick" /\ hist.log[i].arg = 2
          /\ \A j \in {2, 3, 4} \ {i} : hist.log[j].name = "widgetBlurFires"

\* C18: Scenario B counts exactly one deletion, leaves the stored rating at 2
\* and completes two focus -> change -> blur cycles: both clicks are counted
\* as changes and each of the two deferred blurs finds the session open and
\* closes it, whenever the second click comes.
C18_ScenarioB ==
    \A f \in Fields :
        ScenarioB(f) =>
            /\ fld[f].numDeletes = 1
            /\ fld[f].lastRating = 2
            /\ fld[f].numChanges = 2
            /\ fld[f].startFocus = Null
            /\ \A i \in 1..4 :
                  hist.log[i].name = "widgetBlurFires" => hist.log[i].open

\* C19: resetOnFormSubmit leaves hesitationtime and the other fields alone,
\* zeroes timespent and the four counters, clears startFocus, timeLastChange
\* and firstInteractionTime, and leaves no delayed blur of the field pending,
\* so that none scheduled before the reset runs onBlur after it.
C19_ResetFrame ==
    [][\A f \in Fields :
         (lastOp'.name = "resetOnFormSubmit" /\ lastOp'.field = f)
         => /\ fld'[f].hesitationtime = fld[f].hesitationtime
            /\ \A c \in Counters \ {"hesitationtime"} : fld'[f][c] = 0
            /\ fld'[f].startFocus = Null
            /\ fld'[f].timeLastChange = Null
            /\ fld'[f].firstInteractionTime = Null
            /\ {t \in timers' : t.field = f} = {}
            /\ fld'[f].delayedBlurTimer = Null
            /\ \A g \in AllFields \ {f} : fld'[g] = fld[g]
            /\ cls' = cls /\ calls' = <<>> /\ ~err']_vars

\* A reset has just cancelled a delayed blur that could not have fired yet, on
\* a field with hesitation time on record.
C19_Witness ==
    \E f \in Fields :
        /\ lastOp = [name |-> "resetOnFormSubmit", field |-> f]
        /\ fld[f].hesitationtime > 0
        /\ nextTimerId = 2 /\ timers = {}
        /\ now < T0 + DefaultBlurDelay
        /\ fld[f].timerSet = {}

\* C20: after any number of injectCustomFields runs, with elements that match
\* more than one registered selector, no element is twice in fieldNodes, no
\* element has had more than one field instance built for it, and fields and
\* fieldNodes are parallel: appended in pairs, entry for entry.
C20_InjectOnce ==
    /\ Len(tracker.fields) = Len(tracker.fieldNodes)
    /\ \A i \in DOMAIN tracker.fieldNodes :
          /\ tracker.fields[i].element = tracker.fieldNodes[i]
          /\ \A j \in DOMAIN tracker.fieldNodes :
                tracker.fieldNodes[i] = tracker.fieldNodes[j] => i = j
    /\ \A f \in AllFields : dom[f].attached["click"] <= 1

\* A re-scan has added e1, which matches both registered selectors, after e2:
\* one run alone would have listed e1 first.
C20_Witness ==
    /\ lastOp.name = "injectCustomFields"
    /\ tracker.fieldNodes = <<"e2", "e1">>
    /\ Len(page.registry) = 2
    /\ \A k \in DOMAIN page.registry : page.registry[k].class = FullClass
    /\ page.form = Elements

\* C21: at most one re-scan timer is pending per form observer, and it is
\* the one the observer holds; a batch with new fields leaves exactly one
\* timer, due ReScanDelay after that batch, so that a burst of batches is
\* followed by one re-scan, ReScanDelay after the last of them; and a
\* pending re-scan eventually runs.
ReScanTimers == {t \in timers : t.kind = "reScan"}

C21_DebouncedReScan ==
    /\ [](/\ Cardinality(ReScanTimers) <= 1
          /\ \A t \in ReScanTimers : page.reScanTimeout = t.id)
    /\ [][/\ lastOp'.name = "newFields" =>
                \E t \in timers' :
                    /\ ReScanTimers' = {t}
                    /\ t.due = now + ReScanDelay
                    /\ t \notin timers
           /\ lastOp'.name = "reScanFires" =>
                /\ \E u \in ReScanTimers : now >= u.due
                /\ ReScanTimers' = {}
                /\ page'.reScanTimeout = Null
                /\ \A el \in page.form :
                      DataName(el) # NoName /\ (\E ty \in Types : Matches(el, ty)
                          /\ \E k \in DOMAIN page.registry :
                                page.registry[k] = [fieldType |-> ty, class |-> FullClass])
                      => InSeq(el, tracker'.fieldNodes)]_vars
    /\ ((ReScanTimers # {}) ~> (lastOp.name = "reScanFires"))

\* Two batches with new fields, ScanStep apart, and the one re-scan that
\* follows them, ReScanDelay after the second.
C21_Witness ==
    /\ lastOp.name = "reScanFires"
    /\ nextTimerId = 3
    /\ now = T0 + ScanStep + ReScanDelay
    /\ timers = {}
    /\ tracker.fieldNodes # <<>>

\* C22: createField never throws; it yields an instance exactly when the
\* type is registered under the class's own fieldType, the constructor
\* accepts the class and setupEventListeners completes.  An injection run
\* never throws, appends to tracker.fields and tracker.fieldNodes exactly the
\* untracked named elements of the form that match a registered class whose
\* creation succeeds, and does so whatever the other elements' classes do.
Registered(ty, c) ==
    \E k \in DOMAIN page.registry : page.registry[k] = [fieldType |-> ty, class |-> c]

C23_BuiltinsCreate ==
    /\ getAvailableFieldTypes(World) = BuiltinOrder
    /\ lastOp.name = "createField" => ret.b

\* C24: isValidFieldCategory(c) is true exactly when c is one of the
\* strings FIELD_TEXT, FIELD_SELECTABLE, FIELD_CHECKABLE, and
\* getSupportedFieldCategories() returns exactly these three values, each
\* once.
SupportedCategories ==
    {JsString("FIELD_TEXT"), JsString("FIELD_SELECTABLE"), JsString("FIELD_CHECKABLE")}

C24_Categories ==
    /\ lastOp.name = "isValidFieldCategory" =>
          (ret.b <=> ret.arg \in SupportedCategories)
    /\ lastOp.name = "getSupportedFieldCategories" =>
          /\ Len(ret.fa_fn) = 3
          /\ {ret.fa_fn[k] : k \in 1..3} = SupportedCategories

\* The validation of FIELD_CHECKABLE, after the list was asked for.
C24_Witness ==
    /\ lastOp.name = "isValidFieldCategory"
    /\ ret.arg = JsString("FIELD_CHECKABLE")
    /\ ret.b
    /\ ret.fa_fn = getSupportedFieldCategories

\* C25: an onBlur that closes a session which is not auto-induced and in
\* which no onChange was processed adds the time since startFocus to
\* timespent and calls setEngagedWithForm and trackFieldUpdate once each,
\* whatever happened in earlier sessions.
C25_UnchangedSessionBlur ==
    [][\A f \in Fields :
         (/\ lastOp'.name = "onBlur" /\ lastOp'.field = f
          /\ fld[f].startFocus # Null
          /\ ~fld[f].isFocusedCausedAuto
          /\ ~sess[f].processed)
         => /\ fld'[f].timespent = fld[f].timespent + (now - fld[f].startFocus)
            /\ CountCalls("setEngagedWithForm")' = 1
            /\ CountCalls("trackFieldUpdate")' = 1]_vars

\* C26: timeLastChange is set only while a focus session is open, and is
\* then not earlier than the session's startFocus.
C26_ChangeTimeWithinSession ==
    \A f \in Fields :
        fld[f].timeLastChange # Null
        => fld[f].startFocus # Null /\ fld[f].timeLastChange >= fld[f].startFocus

\* C27: an onBlur on an open session whose field has changed calls no host
\* callback and leaves hesitationtime as it is; if firstInteractionTime is
\* set it adds now - firstInteractionTime to timespent and clears
\* firstInteractionTime, timeLastChange and startFocus.
C27_ChangedBlur ==
    [][\A f \in Fields :
         (/\ lastOp'.name = "onBlur" /\ lastOp'.field = f
          /\ fld[f].startFocus # Null
          /\ fld[f].hasChangedValueSinceFocus)
         => /\ calls' = <<>> /\ ~err'
            /\ fld'[f].hesitationtime = fld[f].hesitationtime
            /\ tracker' = tracker
            /\ fld[f].firstInteractionTime # Null =>
                  /\ fld'[f].timespent =
                         fld[f].timespent + (now - fld[f].firstInteractionTime)
                  /\ fld'[f].firstInteractionTime = Null
                  /\ fld'[f].timeLastChange = Null
                  /\ fld'[f].startFocus = Null]_vars

\* A first interaction, a focus event one tick later, a change and the blur
\* two ticks after the first interaction: the blur has added the two ticks.
C27_Witness ==
    \E f \in Fields :
        /\ Len(hist.log) = 4
        /\ hist.log[1].name = "trackFirstInteraction"
        /\ hist.log[2].name = "onFocus" /\ hist.log[2].at = T0 + TickMs
        /\ hist.log[3].name = "onChange"
        /\ hist.log[4].name = "onBlur" /\ hist.log[4].at = T0 + 2 * TickMs
        /\ lastOp = [name |-> "onBlur", field |-> f]
        /\ fld[f].timespent = 2 * TickMs
        /\ fld[f].firstInteractionTime = Null
        /\ fld[f].startFocus = Null
        /\ calls = <<>>

\* C28: while isFocusedCausedAuto is true, onFocus leaves numFocus as it is
\* and calls no host callback; onBlur on a session without a change leaves
\* timespent and hesitationtime as they are and calls no host callback; an
\* onChange is processed whether or not a session is open, sets startFocus
\* to the time of the change, clears the flag and leaves hesitationtime as
\* it is.
C28_AutoFocus ==
    [][\A f \in Fields :
         (lastOp'.field = f /\ fld[f].isFocusedCausedAuto) =>
            /\ lastOp'.name = "onFocus" =>
                  /\ fld'[f].numFocus = fld[f].numFocus
                  /\ calls' = <<>>
                  /\ fld'[f].isFocusedCausedAuto
            /\ (lastOp'.name = "onBlur" /\ ~sess[f].processed) =>
                  /\ fld'[f].timespent = fld[f].timespent
                  /\ fld'[f].hesitationtime = fld[f].hesitationtime
                  /\ calls' = <<>>
            /\ lastOp'.name = "onChange" =>
                  /\ fld'[f].startFocus = now
                  /\ fld'[f].timeLastChange = now
                  /\ ~fld'[f].isFocusedCausedAuto
                  /\ fld'[f].hesitationtime = fld[f].hesitationtime
                  /\ fld'[f].hasChangedValueSinceFocus
                  /\ sess'[f].processed
                  /\ fld'[f].numChanges =
                        fld[f].numChanges + (IF fld[f].canCountChange THEN 1 ELSE 0)
                  /\ CountCalls("setEngagedWithForm")' = 1
                  /\ CountCalls("trackFieldUpdate")' = 1]_vars

\* C29: getTimeSpent returns the committed timespent (1 for a changed field
\* whose timespent is zero) when no session is open or the focus is
\* auto-induced; else that plus max(0, timeLastChange - startFocus) when
\* timeLastChange is set; else that plus now - startFocus.  For a field with
\* numChanges > 0 the value is at least 1.
C29_TimeSpentValue ==
    [][\A f \in Fields :
         (lastOp'.name = "getTrackingParams" /\ lastOp'.field = f) =>
            LET me == fld[f]
                committed == IF me.numChanges # 0 /\ me.timespent = 0
                             THEN 1 ELSE me.timespent
                delta == me.timeLastChange - me.startFocus
            IN  /\ ret'.fa_fts =
                     IF me.startFocus = Null \/ me.isFocusedCausedAuto
                     THEN committed
                     ELSE IF me.timeLastChange # Null
                     THEN committed + (IF delta > 0 THEN delta ELSE 0)
                     ELSE committed + (now - me.startFocus)
                /\ me.numChanges > 0 => ret'.fa_fts >= 1]_vars

\* C30: a delayed blur that fires on an open session of a changed field
\* with firstInteractionTime unset adds the time from startFocus to the
\* firing to timespent, more than nothing when it fires later than
\* startFocus, and closes the session.
C30_DelayedBlurStamps ==
    [][\A f \in Fields :
         (/\ lastOp'.name = "delayedBlurFires" /\ lastOp'.field = f
          /\ fld[f].startFocus # Null
          /\ fld[f].hasChangedValueSinceFocus
          /\ fld[f].firstInteractionTime = Null)
         => /\ fld'[f].timespent = fld[f].timespent + (now - fld[f].startFocus)
            /\ now > fld[f].startFocus => fld'[f].timespent > fld[f].timespent
            /\ fld'[f].timeLastChange = Null
            /\ fld'[f].startFocus = Null
            /\ fld'[f].delayedBlurTimer = Null]_vars

\* The deferred blur of a field focused, changed and left at the same
\* instant has fired DefaultBlurDelay later and has added that delay.
C30_Witness ==
    \E f \in Fields :
        /\ lastOp = [name |-> "delayedBlurFires", field |-> f]
        /\ now = T0 + DefaultBlurDelay
        /\ fld[f].timespent = DefaultBlurDelay
        /\ fld[f].hesitationtime = 0
        /\ fld[f].numChanges = 1
        /\ fld[f].numFocus = 1
        /\ fld[f].startFocus = Null

\* C31: the host's entryFieldName is written once: by the first onChange
\* that is processed, to the name of its field; an ignored onChange and every
\* other handler of every field leave it as it is.
C31_EntryFieldWriteOnce ==
    [][/\ tracker.entryFieldName # NoName =>
            tracker'.entryFieldName = tracker.entryFieldName
       /\ \A f \in AllFields :
            (lastOp'.name = "onChange" /\ lastOp'.field = f
             /\ tracker.entryFieldName = NoName)
            => tracker'.entryFieldName =
                  IF fld[f].startFocus # Null \/ fld[f].isFocusedCausedAuto
                  THEN f ELSE NoName
       /\ lastOp'.name # "onChange" =>
            tracker'.entryFieldName = tracker.entryFieldName]_vars

\* The second field's change has been processed and the first field is
\* still the entry field, after the first field's reset and an ignored change
\* on it.
C31_Witness ==
    /\ lastOp = [name |-> "onChange", field |-> "f2"]
    /\ sess["f2"].processed
    /\ fld["f2"].numChanges = 1
    /\ tracker.entryFieldName = "f1"
    /\ fld["f1"].numChanges = 0
    /\ fld["f1"].timeLastChange # Null

\* C32: a default wiring that finds no interactive element attaches no
\* listener, records none and raises nothing; the field's counters then stay
\* as they are under every event, and the other field of the form is wired
\* and counts as before.
C32_AbsentElement ==
    /\ [](\A f \in AllFields :
            ~dom[f].interactive =>
                /\ \A e \in Events :
                      dom[f].attached[e] = 0 /\ fld[f].eventListeners[e] = 0
                /\ fld[f] = NewField)
    /\ [][\A f \in AllFields :
            (lastOp'.field = f /\ ~dom[f].interactive) =>
                /\ ~err'
                /\ fld' = fld /\ dom' = dom /\ tracker' = tracker
                /\ calls' = <<>>]_vars

\* The first field found no interactive element at its wiring; the second
\* field, wired after it, has counted a focus and a change.
C32_Witness ==
    /\ ~dom["f1"].interactive
    /\ lastOp = [name |-> "domEvent", field |-> "f1"]
    /\ fld["f1"] = NewField
    /\ dom["f2"].attached["input"] = 1
    /\ fld["f2"].numFocus = 1
    /\ fld["f2"].numChanges = 1
    /\ tracker.entryFieldName = "f2"

\* C33: a deferred blur pending on an open session eventually fires, runs
\* onBlur and leaves startFocus null, unless a cancelDelayedBlur or a
\* resetOnFormSubmit takes the timer away; a scheduleDelayedBlur replaces the
\* timer by one of which the same holds.
PendingBlur(f) ==
    \E t \in timers : t.field = f /\ t.kind = "delayedBlur"

C33_CycleCompletes ==
    \A f \in Fields :
        (PendingBlur(f) /\ fld[f].startFocus # Null)
        ~> (/\ ~PendingBlur(f)
            /\ \/ lastOp = [name |-> "delayedBlurFires", field |-> f]
                     /\ fld[f].startFocus = Null
               \/ lastOp.name \in {"cancelDelayedBlur", "resetOnFormSubmit"})

\* A deferred blur scheduled on an open session without a change has fired
\* at its due time and has closed the session with the host notified.
C33_Witness ==
    \E f \in Fields :
        /\ lastOp = [name |-> "delayedBlurFires", field |-> f]
        /\ now = T0 + DefaultBlurDelay
        /\ fld[f].startFocus = Null
        /\ fld[f].numChanges = 0
        /\ fld[f].hesitationtime = DefaultBlurDelay
        /\ CountCalls("trackFieldUpdate") = 1
        /\ timers = {}

\* C34: firstInteractionTime is set only while a focus session is open:
\* every onBlur that closes a session leaves it null.
C34_FirstInteractionCleared ==
    \A f \in Fields :
        fld[f].firstInteractionTime # Null => fld[f].startFocus # Null

\* C35: no interval of time is counted twice: the committed timespent is
\* at most the time since the field was discovered, plus one.
C35_NoDoubleCounting ==
    \A f \in Fields : fld[f].timespent <= (now - discoveredDate) + 1


\* The two getters called on their own, as the host does when it takes a
\* snapshot; the value returned is kept in the record of the call.
GetTimeSpent(f) ==
    LET r == getTimeSpent(World, f)
    IN  Commit(r.S, "getTimeSpent", f, [NoRet EXCEPT !.arg = r.v])

GetHesitationTime(f) ==
    Commit(World, "getHesitationTime", f,
           [NoRet EXCEPT !.arg = getHesitationTime(World, f)])

\* Snapshots taken between the handlers of a field, every call recorded.
NextSnap ==
    \/ Tick(TickMs)
    \/ \E f \in Fields :
        \/ OnFocus(f)
        \/ OnChange(f)
        \/ OnBlur(f)
        \/ ResetOnFormSubmit(f)
        \/ GetTimeSpent(f)
        \/ GetHesitationTime(f)

SpecSnap == InitClick /\ [][NextSnap]_vars

\* C36: of two calls of the same getter (getTimeSpent or getHesitationTime)
\* on one field with no resetOnFormSubmit of that field between them, the
\* later call never returns less than the earlier one.
C36_SnapshotsMonotone ==
    \A i, j \in DOMAIN hist.log :
        ( /\ i < j
          /\ hist.log[i].name \in {"getTimeSpent", "getHesitationTime"}
          /\ hist.log[j].name = hist.log[i].name
          /\ hist.log[j].field = hist.log[i].field
          /\ \A k \in i..j : hist.log[k].name # "resetOnFormSubmit" )
        => hist.log[j].arg >= hist.log[i].arg

\* C37: every click on the image selector has its change processed: when the
\* settle callback of a click runs, a session is open on the field, the
\* callback raises numChanges by one and timespent does not decrease.
C37_ImageClicksCounted ==
    [][ (lastOp'.name = "imageSettleFires" /\ ~err')
        => /\ fld["f2"].startFocus # Null
           /\ fld'["f2"].numChanges = fld["f2"].numChanges + 1
           /\ fld'["f2"].timespent >= fld["f2"].timespent ]_vars

\* C38: a genuine onFocus on a field whose focus count is zero, fresh or just
\* reset by resetOnFormSubmit, is counted: it brings numFocus to 1 and
\* notifies the host, whichever field was focused last; hence a field that
\* was never auto-focused and has numChanges > 0 has numFocus > 0.
C38_FocusCountedAfterReset ==
    /\ [](\A f \in AllFields :
            (fld[f].numChanges > 0 /\ ~fld[f].isFocusedCausedAuto)
            => fld[f].numFocus > 0)
    /\ [][\A f \in AllFields :
            ( /\ lastOp'.name = "onFocus" /\ lastOp'.field = f
              /\ fld[f].numFocus = 0 /\ ~fld[f].isFocusedCausedAuto )
            => /\ fld'[f].numFocus = 1
               /\ \E i \in DOMAIN calls' : calls'[i].cb = "trackFieldUpdate"]_vars

\* C39: an event that arrives after destroy is a no-op: onFocus, onChange,
\* onBlur, trackFirstInteraction, scheduleDelayedBlur or a deferred widget
\* blur on a destroyed field raises no error and leaves every attribute of
\* the field as it was.
LateEvents ==
    {"onFocus", "onChange", "onBlur", "trackFirstInteraction",
     "scheduleDelayedBlur", "widgetBlurFires"}

C39_LateEventsBenign ==
    [][\A f \in Fields :
         (fld[f].isDestroyed /\ lastOp'.field = f /\ lastOp'.name \in LateEvents)
         => (~err' /\ fld'[f] = fld[f])]_vars

\* BaseField.setupEventListeners and the override of a subclass, each call a
\* frame on a stack of MaxStack frames; runs counts the runs of the override.
RECURSIVE setupEventListeners(_, _, _, _)
RECURSIVE overrideSetupEventListeners(_, _, _, _)

setupEventListeners(S, f, o, depth) ==
    IF depth > MaxStack THEN [S |-> Throw(S), runs |-> 0]
    ELSE IF o # "none" THEN overrideSetupEventListeners(S, f, o, depth + 1)
    ELSE [S |-> setupDefaultEventListeners(S, f), runs |-> 0]

overrideSetupEventListeners(S, f, o, depth) ==
    IF depth > MaxStack THEN [S |-> Throw(S), runs |-> 0]
    ELSE LET S1 == setupWidgetListeners(S, f)
         IN  IF o = "super"
             THEN LET r == setupEventListeners(S1, f, o, depth + 1)
                  IN  [S |-> r.S, runs |-> r.runs + 1]
             ELSE [S |-> S1, runs |-> 1]

\* field.setupEventListeners(): the method the class of the field resolves to.
FieldSetupEventListeners(f) ==
    /\ dom[f].attached["click"] < MaxSetups
    /\ LET o == cls[f].override
           r == IF o = "none" THEN setupEventListeners(World, f, o, 1)
                ELSE overrideSetupEventListeners(World, f, o, 1)
       IN  Commit(r.S, "setupEventListeners", f, [NoRet EXCEPT !.arg = r.runs])

\* Fields of classes of the three kinds, wired and then used.
InitOverride ==
    /\ now = T0
    /\ fld = [f \in AllFields |-> NewField]
    /\ tracker = NewTracker
    /\ timers = {}
    /\ nextTimerId = 1
    /\ dom = [f \in AllFields |-> NewDom]
    /\ calls = <<>>
    /\ err = FALSE
    /\ lastOp = [name |-> "constructor", field |-> NoName]
    /\ ret = NoRet
    /\ sess = [f \in AllFields |-> NewSession(0)]
    /\ hist = [on |-> FALSE, log |-> <<>>]
    /\ cls \in [AllFields -> {[FullClass EXCEPT !.override = o] : o \in Overrides}]
    /\ page = NewPage

NextOverride ==
    \/ \E f \in AllFields : FieldSetupEventListeners(f)
    \/ \E f \in AllFields : DomEvent(f, {"focus", "input", "blur"})

SpecOverride == InitOverride /\ [][NextOverride]_vars

\* C40: setupEventListeners returns, without an error, for a field of every
\* class: for a class that keeps the base method the default wiring runs once;
\* for a class that overrides it the override runs exactly once, and when the
\* override calls super.setupEventListeners() the default listeners are added
\* once as well.
C40_SetupTerminates ==
    [][\A f \in AllFields :
         lastOp' = [name |-> "setupEventListeners", field |-> f]
         => /\ ~err'
            /\ ret'.arg = (IF cls[f].override = "none" THEN 0 ELSE 1)
            /\ cls[f].override # "own"
               => \A e \in Events : dom'[f].added[e] = dom[f].added[e] + 1]_vars
====
